--------------------------- MODULE PxSignalsProofs ---------------------------
(***************************************************************************)
(* Ctrl-alt-delete in the middle of any call, for any services, lines,     *)
(* targets and clients: the handler's calls lie on those it interrupts, so *)
(* what PxDaemonEdges says of the calls in progress, which of them may be  *)
(* in another and whose lists they walk, is no longer true of all of them. *)
(* The argument is that the handler does little.  Its target is a shutdown *)
(* target and every service heeds it, so it calls setTarget(), update()    *)
(* and stop() and nothing else: it changes no edge, begins no start or     *)
(* finish, and whoever is locked or down stays so.  The interrupted calls, *)
(* counted from the first, are found again as they were left (Orderly).    *)
(***************************************************************************)
EXTENDS PxSignals, PxDaemonEdges

\* The k-th of the calls in progress that was made.
Made(k) == stack[Len(stack) - k + 1]

\* The first n of them are as FrameInv says.
Orderly(n) ==
  \A k \in 1..n :
    /\ Alone(Made(k))
    /\ \A j \in (k + 1)..n : Nested(Made(j), Made(k))

\* What the handler calls, once every service must stop, and what it
\* interrupted.
HandlerInv ==
  /\ height \in 1..Len(stack)
  /\ IsShutdown(tgts)
  /\ Made(height).fn = "setTarget"
  /\ \A k \in (height + 1)..Len(stack) : Made(k).fn \in {"update", "stop"} /\ Alone(Made(k))
  /\ Orderly(height - 1)
  /\ \A s \in Services :
       /\ Unlocked(s)
       /\ failLocked[s] /\ Included(s) => height = 2 /\ Made(1) = Call("update", s)

\* Without a handler what PxDaemonEdges proves; the edges mirror each other in
\* any case.
SignalInv ==
  /\ TypeInv /\ LauncherInv /\ EdgeInv
  /\ saved \in Return
  /\ height \in Nat
  /\ height = 0 => LockInv /\ FrameInv
  /\ height # 0 => HandlerInv

\* Once main() has added a target, there is one to update services for.
EnteringInv ==
  /\ entering.target \in Targets
  /\ entering.at \in {"reset", "list"} => tgts # <<>>

-----------------------------------------------------------------------------
(* Calls, counted from the first.                                          *)

\* What a step of the running call, and a handler on top of it, leaves in place.
LEMMA MadeStays ==
  ASSUME CallTypes, NEW n \in Nat, n = Len(stack)
  PROVE  /\ stack # <<>> => n >= 1 /\ Made(n) = Top /\ Top \in GoodFrame
         /\ (\E v : ReturnWith(v)) /\ stack # <<>> =>
              /\ Len(stack') = n - 1
              /\ \A k \in 1..(n - 1) : Made(k)' = Made(k)
         /\ \A f : Continue(f) /\ stack # <<>> =>
              /\ Len(stack') = n /\ Made(n)' = f
              /\ \A k \in 1..(n - 1) : Made(k)' = Made(k)
         /\ \A f, g : Invoke(f, g) /\ stack # <<>> =>
              /\ Len(stack') = n + 1 /\ Made(n)' = f /\ Made(n + 1)' = g
              /\ \A k \in 1..(n - 1) : Made(k)' = Made(k)
         /\ \A f : OnTop(f) =>
              /\ Len(stack') = n + 1 /\ Made(n + 1)' = f
              /\ \A k \in 1..n : Made(k)' = Made(k)
<1>1. PICK q \in Seq(GoodFrame) : q = stack
  BY DEF CallTypes
<1>2. PICK t : t = stack'
  OBVIOUS
<1> DEFINE FromFirst(u, k) == u[Len(u) - k + 1]
<1>3. \A k : Made(k) = FromFirst(q, k) /\ Made(k)' = FromFirst(t, k)
  BY <1>1, <1>2 DEF Made
<1>4. PICK r : r = Tail(q)
  OBVIOUS
<1>5. ASSUME q # <<>>
      PROVE  /\ n >= 1 /\ FromFirst(q, n) = Head(q) /\ Head(q) \in GoodFrame
             /\ r \in Seq(GoodFrame) /\ Len(r) = n - 1
             /\ \A k \in 1..(n - 1) : FromFirst(r, k) = FromFirst(q, k)
  <2>1. n >= 1 /\ Len(q) = n /\ q[1] = Head(q) /\ q[1] \in GoodFrame /\ n - n + 1 = 1
    BY <1>1, <1>5
  <2>2. r \in Seq(GoodFrame) /\ Len(r) = n - 1 /\ \A i \in 1..(n - 1) : r[i] = q[i + 1]
    BY <1>1, <1>4, <1>5
  <2>3. ASSUME NEW k \in 1..(n - 1) PROVE FromFirst(r, k) = FromFirst(q, k)
    <3>1. (n - 1) - k + 1 \in 1..(n - 1) /\ ((n - 1) - k + 1) + 1 = n - k + 1
      OBVIOUS
    <3>2. r[(n - 1) - k + 1] = q[n - k + 1]
      BY <2>2, <3>1
    <3>3. QED
      BY <2>1, <2>2, <3>2
  <2>4. QED
    BY <2>1, <2>2, <2>3
<1>6. ASSUME NEW E, NEW u \in Seq(E), NEW m \in Nat, m = Len(u), NEW f
      PROVE  /\ Len(<<f>> \o u) = m + 1 /\ FromFirst(<<f>> \o u, m + 1) = f
             /\ \A k \in 1..m : FromFirst(<<f>> \o u, k) = FromFirst(u, k)
  <2> DEFINE w == <<f>> \o u
  <2>1. <<f>> \in Seq({f} \union E) /\ u \in Seq({f} \union E)
    BY <1>6
  <2>2. Len(w) = m + 1 /\ w[1] = f /\ \A i \in 2..(m + 1) : w[i] = u[i - 1]
    BY <1>6, <2>1
  <2> HIDE DEF w
  <2>3. ASSUME NEW k \in 1..m PROVE FromFirst(w, k) = FromFirst(u, k)
    <3>1. (m + 1) - k + 1 \in 2..(m + 1) /\ ((m + 1) - k + 1) - 1 = m - k + 1
      OBVIOUS
    <3>2. w[(m + 1) - k + 1] = u[m - k + 1]
      BY <2>2, <3>1
    <3>3. QED
      BY <1>6, <2>2, <3>2
  <2>4. FromFirst(w, m + 1) = f
    <3>1. (m + 1) - (m + 1) + 1 = 1
      OBVIOUS
    <3>2. QED
      BY <2>2, <3>1
  <2>5. Len(w) = m + 1
    BY <2>2
  <2>6. QED
    BY <2>3, <2>4, <2>5 DEF w
<1> HIDE DEF FromFirst
<1>7. stack # <<>> => n >= 1 /\ Made(n) = Top /\ Top \in GoodFrame
  BY <1>1, <1>3, <1>5 DEF Top
<1>8. ASSUME NEW v, ReturnWith(v), stack # <<>>
      PROVE  /\ Len(stack') = n - 1
             /\ \A k \in 1..(n - 1) : Made(k)' = Made(k)
  <2>1. t = r
    BY <1>1, <1>2, <1>4, <1>8 DEF ReturnWith
  <2>2. QED
    BY <1>1, <1>2, <1>3, <1>5, <1>8, <2>1
<1>9. ASSUME NEW f, Continue(f), stack # <<>>
      PROVE  /\ Len(stack') = n /\ Made(n)' = f
             /\ \A k \in 1..(n - 1) : Made(k)' = Made(k)
  <2>1. t = <<f>> \o r
    BY <1>1, <1>2, <1>4, <1>9 DEF Continue
  <2>2. PICK m \in Nat : m = n - 1
    BY <1>1, <1>5, <1>9
  <2>3. /\ Len(t) = m + 1 /\ FromFirst(t, m + 1) = f
        /\ \A k \in 1..m : FromFirst(t, k) = FromFirst(r, k)
    BY <1>1, <1>5, <1>6, <1>9, <2>1, <2>2
  <2>4. m + 1 = n
    BY <2>2
  <2>5. QED
    BY <1>1, <1>2, <1>3, <1>5, <1>9, <2>2, <2>3, <2>4
<1>10. ASSUME NEW f, NEW g, Invoke(f, g), stack # <<>>
       PROVE  /\ Len(stack') = n + 1 /\ Made(n)' = f /\ Made(n + 1)' = g
              /\ \A k \in 1..(n - 1) : Made(k)' = Made(k)
  <2>1. PICK w : w = <<f>> \o r
    OBVIOUS
  <2>2. t = <<g>> \o w
    <3>1. r \in Seq(GoodFrame)
      BY <1>1, <1>5, <1>10
    <3>2. /\ <<g, f>> \in Seq({f, g} \union GoodFrame) /\ <<f>> \in Seq({f, g} \union GoodFrame)
          /\ <<g>> \in Seq({f, g} \union GoodFrame) /\ r \in Seq({f, g} \union GoodFrame)
      BY <3>1
    <3>3. <<g, f>> \o r = <<g>> \o (<<f>> \o r)
      BY <3>2
    <3>4. QED
      BY <1>1, <1>2, <1>4, <1>10, <2>1, <3>3 DEF Invoke
  <2>3. PICK m \in Nat : m = n - 1
    BY <1>1, <1>5, <1>10
  <2>4. /\ Len(w) = m + 1 /\ FromFirst(w, m + 1) = f
        /\ \A k \in 1..m : FromFirst(w, k) = FromFirst(r, k)
    BY <1>1, <1>5, <1>6, <1>10, <2>1, <2>3
  <2>5. w \in Seq({f} \union GoodFrame) /\ m + 1 = n /\ n = Len(w)
    <3>1. r \in Seq(GoodFrame)
      BY <1>1, <1>5, <1>10
    <3>2. <<f>> \in Seq({f} \union GoodFrame) /\ r \in Seq({f} \union GoodFrame)
      BY <3>1
    <3>3. QED
      BY <2>1, <2>3, <2>4, <3>2
  <2>6. /\ Len(t) = n + 1 /\ FromFirst(t, n + 1) = g
        /\ \A k \in 1..n : FromFirst(t, k) = FromFirst(w, k)
    BY <1>6, <2>2, <2>5
  <2>7. FromFirst(t, n) = f /\ \A k \in 1..(n - 1) : FromFirst(t, k) = FromFirst(r, k)
    <3>1. n \in 1..n /\ 1..(n - 1) \subseteq 1..n /\ 1..(n - 1) = 1..m
      BY <2>3
    <3>2. QED
      BY <2>4, <2>5, <2>6, <3>1
  <2>8. QED
    BY <1>1, <1>2, <1>3, <1>5, <1>10, <2>6, <2>7
<1>11. ASSUME NEW f, OnTop(f)
       PROVE  /\ Len(stack') = n + 1 /\ Made(n + 1)' = f
              /\ \A k \in 1..n : Made(k)' = Made(k)
  <2>1. t = <<f>> \o q
    BY <1>1, <1>2, <1>11 DEF OnTop
  <2>2. QED
    BY <1>1, <1>2, <1>3, <1>6, <2>1
<1>12. QED
  BY <1>7, <1>8, <1>9, <1>10, <1>11

\* FrameInv, counting from the first call.
LEMMA FramesAreOrderly ==
  /\ CallTypes /\ FrameInv => Orderly(Len(stack))
  /\ CallTypes' /\ (\A n \in Nat : n = Len(stack') => Orderly(n)') => FrameInv'
<1>1. ASSUME CallTypes, FrameInv PROVE Orderly(Len(stack))
  <2>1. PICK n \in Nat : n = Len(stack) /\ DOMAIN stack = 1..n
    BY <1>1 DEF CallTypes
  <2>2. ASSUME NEW k \in 1..n
        PROVE  Alone(Made(k)) /\ \A j \in (k + 1)..n : Nested(Made(j), Made(k))
    <3>1. n - k + 1 \in DOMAIN stack /\ Made(k) = stack[n - k + 1]
      BY <2>1 DEF Made
    <3>2. ASSUME NEW j \in (k + 1)..n PROVE Nested(Made(j), Made(k))
      <4>1. n - j + 1 \in 1..((n - k + 1) - 1) /\ Made(j) = stack[n - j + 1]
        BY <2>1 DEF Made
      <4>2. QED
        BY <1>1, <3>1, <4>1 DEF FrameInv
    <3>3. QED
      BY <1>1, <3>1, <3>2 DEF FrameInv
  <2>3. QED
    BY <2>1, <2>2 DEF Orderly
<1>2. ASSUME CallTypes', \A n \in Nat : n = Len(stack') => Orderly(n)' PROVE FrameInv'
  <2>1. PICK t \in Seq(GoodFrame) : t = stack'
    BY <1>2 DEF CallTypes
  <2>2. PICK n \in Nat : n = Len(t) /\ DOMAIN t = 1..n
    OBVIOUS
  <2>3. Orderly(n)'
    BY <1>2, <2>1, <2>2
  <2>4. ASSUME NEW k \in 1..n
        PROVE  Alone(t[k])' /\ \A j \in 1..(k - 1) : Nested(t[j], t[k])'
    <3>1. n - k + 1 \in 1..n /\ n - (n - k + 1) + 1 = k
      OBVIOUS
    <3>2. PICK m \in 1..n : m = n - k + 1 /\ Made(m)' = t[k]
      BY <2>1, <2>2, <3>1 DEF Made
    <3>3. Alone(t[k])'
      BY <2>3, <3>2 DEF Orderly, Alone
    <3>4. ASSUME NEW j \in 1..(k - 1) PROVE Nested(t[j], t[k])'
      <4>1. n - j + 1 \in (m + 1)..n /\ n - (n - j + 1) + 1 = j
        BY <3>2
      <4>2. PICK l \in (m + 1)..n : Made(l)' = t[j]
        BY <2>1, <2>2, <4>1 DEF Made
      <4>3. Nested(Made(l), Made(m))'
        BY <2>3, <4>2 DEF Orderly
      <4>4. QED
        BY <3>2, <4>2, <4>3 DEF Nested, Calm, Climbs
    <3>5. QED
      BY <3>3, <3>4
  <2>5. QED
    BY <2>1, <2>2, <2>4 DEF FrameInv, Alone, Nested, Calm, Climbs
<1>3. QED
  BY <1>1, <1>2

\* While every service must stop, what may be nested in what does not depend on
\* the services.
LEMMA NestedInShutdown ==
  ASSUME IgnoreShutdown = {}, IsShutdown(tgts)
  PROVE  /\ \A s : MustStop(s)
         /\ \A f, b : Nested(f, b) <=> /\ f.fn \notin {"finishStop", "setTarget", "command"}
                                       /\ b.fn \in Walking => f.fn # "start"
  BY DEF MustStop, Nested, Calm

\* The same in the next state.
LEMMA NestedInShutdownNext ==
  ASSUME IgnoreShutdown = {}, IsShutdown(tgts)'
  PROVE  /\ \A s : MustStop(s)'
         /\ \A f, b : Nested(f, b)' <=> /\ f.fn \notin {"finishStop", "setTarget", "command"}
                                        /\ b.fn \in Walking => f.fn # "start"
  BY DEF MustStop, Nested, Calm

\* Calls that stay in place stay orderly, if none of their services goes down or
\* comes up.
LEMMA StaysOrderly ==
  ASSUME IgnoreShutdown = {}, IsShutdown(tgts)', NEW n \in Nat, Orderly(n),
         \A k \in 1..n : Made(k) \in GoodFrame /\ Made(k)' = Made(k),
         \A s \in Services : Excluded(s)' = Excluded(s)
  PROVE  Orderly(n)'
<1>1. ASSUME NEW k \in 1..n
      PROVE  Alone(Made(k))' /\ \A j \in (k + 1)..n : Nested(Made(j), Made(k))'
  <2>1. PICK b : b = Made(k) /\ b = Made(k)'
    OBVIOUS
  <2>2. Alone(Made(k))'
    <3>1. Alone(b)
      BY <2>1 DEF Orderly
    <3>2. Alone(b)'
      BY <2>1, <3>1, ServiceOf DEF Alone, Busy
    <3>3. QED
      BY <2>1, <3>2 DEF Alone, Busy
  <2>3. ASSUME NEW j \in (k + 1)..n PROVE Nested(Made(j), Made(k))'
    <3>1. PICK f : f = Made(j) /\ f = Made(j)'
      OBVIOUS
    <3>2. Nested(f, b)
      BY <2>1, <3>1 DEF Orderly
    <3>3. Nested(f, b)'
      BY <3>2, NestedInShutdownNext DEF Nested
    <3>4. QED
      BY <2>1, <3>1, <3>3 DEF Nested, Calm, Climbs
  <2>4. QED
    BY <2>2, <2>3
<1>2. QED
  BY <1>1 DEF Orderly

\* The handler's calls after a step of one of them.
LEMMA HandlerKeeps ==
  ASSUME IgnoreShutdown = {}, CallTypes, HandlerInv, UNCHANGED <<height, tgts, failLocked>>,
         height \in 1..Len(stack'),
         \A k \in 1..(height - 1) : Made(k)' = Made(k),
         Made(height)'.fn = "setTarget",
         \A k \in Nat : k > height /\ k <= Len(stack') =>
           Made(k)'.fn \in {"update", "stop"} /\ Alone(Made(k))',
         \A s \in Services : Excluded(s)' = Excluded(s) /\ Unlocked(s)' /\ (Included(s)' => Included(s))
  PROVE  HandlerInv'
<1>1. PICK h \in Nat \ {0} : h = height /\ h = height'
  BY DEF HandlerInv, CallTypes
<1>2. IsShutdown(tgts)'
  BY DEF HandlerInv, IsShutdown, HasAttribute
<1>3. \A k \in 1..(h - 1) : Made(k) \in GoodFrame /\ Made(k)' = Made(k)
  <2>1. \A k \in 1..(h - 1) : Len(stack) - k + 1 \in 1..Len(stack) /\ Len(stack) \in Nat
    BY <1>1 DEF HandlerInv, CallTypes
  <2>2. QED
    BY <1>1, <2>1 DEF CallTypes, Made
<1>4. Orderly(h - 1)'
  BY <1>1, <1>2, <1>3, StaysOrderly DEF HandlerInv
<1>5. ASSUME NEW s \in Services, failLocked'[s], Included(s)'
      PROVE  h = 2 /\ Made(1)' = Call("update", s)
  <2>1. h = 2 /\ Made(1) = Call("update", s)
    BY <1>1, <1>5 DEF HandlerInv
  <2>2. 1 \in 1..(h - 1)
    BY <2>1
  <2>3. QED
    BY <1>3, <2>1, <2>2
<1>6. \A k \in (h + 1)..Len(stack') : k \in Nat /\ k > height /\ k <= Len(stack')
  <2>1. PICK t : t = stack'
    OBVIOUS
  <2>2. QED
    BY <1>1
<1>7. QED
  BY <1>1, <1>2, <1>4, <1>5, <1>6 DEF HandlerInv

\* What the handler can do: setTarget() updates, update() starts what was ready
\* and stops, and stop() updates.
LEMMA HandlerSteps ==
  ASSUME IgnoreShutdown = {}, CallTypes, HandlerInv, Run, ~HandlerAtEnd, height # 0
  PROVE  /\ stack # <<>>
         /\ \/ Len(stack) = height /\ TargetNext
            \/ /\ Len(stack) > height
               /\ \E s \in Services : Update(s) \/ UpdateSelf(s) \/ ReturnFromTail(s) \/ StopNext(s)
<1>1. PICK n \in Nat : n = Len(stack)
  BY DEF CallTypes
<1>2. n >= 1 /\ height \in 1..n /\ stack # <<>>
  BY <1>1 DEF HandlerInv
<1>3. Made(n) = Top
  BY <1>1, <1>2, MadeStays
<1>4. CASE n = height
  <2>1. Top.fn = "setTarget" /\ Top.todo # {}
    BY <1>1, <1>2, <1>3, <1>4 DEF HandlerInv, HandlerAtEnd
  <2>2. TargetNext
    BY <2>1 DEF Run, ServiceStep, Update, StartDepends, StartDepended, StartTriesAfter,
                StartTriedAfter, StartAddedAfter, UpdateSelf, ReturnFromTail, StopNext,
                CascadeEnters, CascadeNext, FinishStartNext, FinishStartFails,
                FinishStartEnds, FinishStopNext, FinishStopEnds, Runs, CommandReturns,
                TargetEnds
  <2>3. QED
    BY <1>1, <1>2, <1>4, <2>2
<1>5. CASE n # height
  <2>1. n \in (height + 1)..n /\ n > height
    BY <1>2, <1>5
  <2>2. Top.fn \in {"update", "stop"}
    BY <1>1, <1>3, <2>1 DEF HandlerInv
  <2>3. \E s \in Services : Update(s) \/ UpdateSelf(s) \/ ReturnFromTail(s) \/ StopNext(s)
    BY <2>2 DEF Run, ServiceStep, StartDepends, StartDepended, StartTriesAfter,
                StartTriedAfter, StartAddedAfter,
                CascadeEnters, CascadeNext, FinishStartNext, FinishStartFails,
                FinishStartEnds, FinishStopNext, FinishStopEnds, Runs, CommandReturns,
                TargetEnds, TargetNext
  <2>4. QED
    BY <1>1, <1>2, <2>1, <2>3
<1>6. QED
  BY <1>4, <1>5

\* update() when every service must stop: it starts nothing anew.
LEMMA UpdateInShutdown ==
  ASSUME IgnoreShutdown = {}, IsShutdown(tgts), TypeInv, NEW s \in Services, Update(s)
  PROVE  /\ UNCHANGED <<failLocked, tgts, edgeVars>>
         /\ \A r \in Services : Excluded(r)' = Excluded(r) /\ (Included(r)' => Included(r))
         /\ \/ \E v \in Return : ReturnWith(v)
            \/ Continue(Call("stop", s)) /\ ~Excluded(s)'
<1> USE DEF TypeInv, DataTypes
<1>1. CASE ReadyToStart(s) /\ (RawStart(s) \/ RawStartFails(s))
  BY <1>1 DEF ReadyToStart, RawStart, RawStartFails, SetStatus, Excluded, Included, targetVars,
              edgeVars, Return
<1>2. CASE ReadyToStop(s) /\ RawStop(s)
  BY <1>2 DEF ReadyToStop, RawStop, SetStatus, Excluded, Included, targetVars, edgeVars, Return
<1>3. ~WantsStart(s)
  BY NestedInShutdown DEF WantsStart, ShouldRun
<1>4. CASE WantsStop(s) /\ BeginStop(s)
  BY <1>4 DEF WantsStop, BeginStop, SetStatus, Excluded, Included, targetVars, edgeVars
<1>5. CASE UpdateIsIdle(s)
  BY <1>5 DEF UpdateIsIdle, Excluded, Included, targetVars, edgeVars, serviceVars, Return
<1>6. QED
  BY <1>1, <1>2, <1>3, <1>4, <1>5 DEF Update

\* A call of stop() stays a call of stop() on its service; setTarget() stays one.
LEMMA GoesOnAs ==
  ASSUME CallTypes, stack # <<>>
  PROVE  /\ \A fn, s, l : Runs(fn, s, l) /\ fn = "stop" =>
              /\ At("tail").fn = "stop" /\ At("tail").svc = s
              /\ Next1.fn = "stop" /\ Next1.svc = s
         /\ \A s : Top.fn = "setTarget" => [Top EXCEPT !.todo = @ \ {s}].fn = "setTarget"
<1>1. Top \in GoodFrame
  BY DEF CallTypes, Top
<1>2. QED
  BY <1>1 DEF Runs, At, Next1, GoodFrame, GoodServiceFrame, ServiceFrame, TargetFrame,
              CommandFrame

\* Every step of the handler's calls keeps what is said of them, and leaves the
\* edges alone.
LEMMA HandlerRuns ==
  ASSUME IgnoreShutdown = {}, TypeInv, LauncherInv, HandlerInv, Run, ~HandlerAtEnd,
         height # 0, height' = height
  PROVE  /\ HandlerInv'
         /\ UNCHANGED edgeVars
         /\ Endings' = Endings
         /\ \A r \in Services : Excluded(r)' = Excluded(r)
<1> USE DEF TypeInv
<1>1. PICK n, h : n \in Nat \ {0} /\ h \in 1..n /\ n = Len(stack) /\ h = height
  BY DEF HandlerInv, CallTypes
<1>2. stack # <<>> /\ Made(n) = Top /\ Top \in GoodFrame
  BY <1>1, HandlerSteps, MadeStays
<1>3. \A r \in Services : Unlocked(r)
  BY DEF HandlerInv
<1> DEFINE Same == /\ UNCHANGED <<failLocked, tgts, edgeVars>>
                   /\ \A r \in Services :
                        Excluded(r)' = Excluded(r) /\ Unlocked(r)' /\ (Included(r)' => Included(r))
<1>4. ASSUME UNCHANGED <<serviceVars, edgeVars, targetVars, launchVars>> PROVE Same
  BY <1>3, <1>4 DEF serviceVars, targetVars, launchVars, Unlocked, BeingStarted, FinstartUnread,
                    Excluded, Included
<1>5. ASSUME NEW s \in Services, Update(s) PROVE Same
  BY <1>3, <1>5, UpdateUnlocked, UpdateInShutdown DEF HandlerInv
<1>6. \A k \in Nat : k > h /\ k <= n => Made(k).fn \in {"update", "stop"} /\ Alone(Made(k))
  BY <1>1 DEF HandlerInv
<1>7. \A k \in Nat : k > h /\ k <= n => n - k + 1 \in DOMAIN stack /\ Made(k) \in GoodFrame
  BY <1>1 DEF CallTypes, Made
<1>8. ASSUME Same, NEW k \in Nat, k > h, k <= n, Made(k)' = Made(k)
      PROVE  Made(k)'.fn \in {"update", "stop"} /\ Alone(Made(k))'
  <2>1. PICK f \in GoodFrame : f = Made(k) /\ f = Made(k)'
    BY <1>7, <1>8
  <2>2. f.fn \in {"update", "stop"} /\ Alone(f)
    BY <1>6, <1>8, <2>1
  <2>3. f.svc \in Services
    BY <2>2, ServiceOf
  <2>4. Alone(f)'
    BY <1>8, <2>2, <2>3 DEF Alone, Busy
  <2>5. QED
    BY <2>1, <2>2, <2>4 DEF Alone, Busy
<1>9. ASSUME Same, NEW f, f.fn = "update" \/ (f.fn = "stop" /\ ~Excluded(f.svc)')
      PROVE  Alone(f)'
  BY <1>9 DEF Alone, Busy
<1> HIDE DEF Same
<1>10. CASE n = h /\ TargetNext
  <2>1. PICK s \in Top.todo : Invoke([Top EXCEPT !.todo = @ \ {s}], Call("update", s))
    BY <1>10 DEF TargetNext
  <2>2. PICK f, g : f = [Top EXCEPT !.todo = @ \ {s}] /\ g = Call("update", s)
    OBVIOUS
  <2>3. Invoke(f, g) /\ f.fn = "setTarget" /\ g.fn = "update"
    BY <1>2, <1>10, <2>1, <2>2, GoesOnAs DEF TargetNext, Call
  <2>4. /\ Len(stack') = n + 1 /\ Made(n)' = f /\ Made(n + 1)' = g
        /\ \A k \in 1..(n - 1) : Made(k)' = Made(k)
    BY <1>1, <1>2, <2>3, MadeStays
  <2>5. Same
    BY <1>4, <1>10 DEF TargetNext
  <2>6. Alone(g)'
    BY <1>9, <2>3, <2>5
  <2>7. \A k \in Nat : k > h /\ k <= Len(stack') =>
          Made(k)'.fn \in {"update", "stop"} /\ Alone(Made(k))'
    <3>1. Made(n + 1)'.fn = "update" /\ Alone(Made(n + 1))'
      BY <2>3, <2>4, <2>6 DEF Alone, Busy
    <3>2. \A k \in Nat : k > h /\ k <= Len(stack') => k = n + 1
      BY <1>1, <1>10, <2>4
    <3>3. QED
      BY <3>1, <3>2
  <2>8. HandlerInv'
    BY <1>1, <1>10, <2>3, <2>4, <2>5, <2>7, HandlerKeeps DEF Same
  <2>9. Endings' = Endings
    BY <1>2, <1>10, <2>3, SameEndings DEF TargetNext
  <2>10. QED
    BY <2>5, <2>8, <2>9 DEF Same
<1>11. ASSUME n > h, Same, Top.fn \in {"update", "stop"},
              \/ \E v : ReturnWith(v)
              \/ \E f : Continue(f) /\ f.fn = "stop" /\ ~Excluded(f.svc)'
              \/ \E f, g : /\ Invoke(f, g) /\ g.fn = "update"
                           /\ f.fn = "stop" /\ ~Excluded(f.svc)'
       PROVE  HandlerInv' /\ Endings' = Endings
  <2>1. Endings' = Endings
    <3>1. Top.fn # "finishStop"
      BY <1>11
    <3>2. \/ \E v : ReturnWith(v)
          \/ \E f : Continue(f) /\ f.fn # "finishStop"
          \/ \E f, g : Invoke(f, g) /\ f.fn # "finishStop" /\ g.fn # "finishStop"
      BY <1>11
    <3>3. QED
      BY <1>2, <3>1, <3>2, SameEndings
  <2> DEFINE Kept ==
        /\ Len(stack') \in Nat /\ Len(stack') >= n - 1
        /\ \A k \in 1..(n - 1) : Made(k)' = Made(k)
        /\ \A k \in Nat : k >= n /\ k <= Len(stack') =>
             Made(k)'.fn \in {"update", "stop"} /\ Alone(Made(k))'
  <2>2. Kept
    <3>1. CASE \E v : ReturnWith(v)
      BY <1>1, <1>2, <3>1, MadeStays
    <3>2. ASSUME NEW f, Continue(f), f.fn = "stop", ~Excluded(f.svc)'
          PROVE  Kept
      <4>1. Alone(f)'
        BY <1>9, <1>11, <3>2
      <4>2. /\ Len(stack') = n /\ Made(n)' = f
            /\ \A k \in 1..(n - 1) : Made(k)' = Made(k)
        BY <1>1, <1>2, <3>2, MadeStays
      <4>3. QED
        BY <3>2, <4>1, <4>2 DEF Alone, Busy
    <3>3. ASSUME NEW f, NEW g, Invoke(f, g), g.fn = "update", f.fn = "stop", ~Excluded(f.svc)'
          PROVE  Kept
      <4>1. Alone(f)' /\ Alone(g)'
        BY <1>9, <1>11, <3>3
      <4>2. /\ Len(stack') = n + 1 /\ Made(n)' = f /\ Made(n + 1)' = g
            /\ \A k \in 1..(n - 1) : Made(k)' = Made(k)
        BY <1>1, <1>2, <3>3, MadeStays
      <4>3. /\ Made(n)'.fn = "stop" /\ Alone(Made(n))'
            /\ Made(n + 1)'.fn = "update" /\ Alone(Made(n + 1))'
        BY <3>3, <4>1, <4>2 DEF Alone, Busy
      <4>4. ASSUME NEW k \in Nat, k >= n, k <= Len(stack')
            PROVE  Made(k)'.fn \in {"update", "stop"} /\ Alone(Made(k))'
        <5>1. k = n \/ k = n + 1
          BY <1>1, <4>2, <4>4
        <5>2. QED
          BY <4>3, <5>1
      <4>5. QED
        BY <1>1, <4>2, <4>4
    <3>4. QED
      BY <1>11, <3>1, <3>2, <3>3
  <2>3. \A k \in Nat : k > h /\ k <= Len(stack') =>
          Made(k)'.fn \in {"update", "stop"} /\ Alone(Made(k))'
    <3>1. ASSUME NEW k \in Nat, k > h, k <= Len(stack')
          PROVE  Made(k)'.fn \in {"update", "stop"} /\ Alone(Made(k))'
      <4>1. CASE k >= n
        BY <2>2, <3>1, <4>1
      <4>2. CASE k < n
        <5>1. k \in 1..(n - 1) /\ k <= n
          BY <1>1, <3>1, <4>2
        <5>2. Made(k)' = Made(k)
          BY <2>2, <5>1
        <5>3. QED
          BY <1>8, <1>11, <3>1, <5>1, <5>2
      <4>3. QED
        BY <1>1, <3>1, <4>1, <4>2
    <3>2. QED
      BY <3>1
  <2>4. /\ h \in 1..(n - 1) /\ h \in 1..Len(stack')
        /\ \A k \in 1..(h - 1) : k \in 1..(n - 1)
    BY <1>1, <1>11, <2>2
  <2>5. Made(h)'.fn = "setTarget" /\ \A k \in 1..(h - 1) : Made(k)' = Made(k)
    BY <1>1, <2>2, <2>4 DEF HandlerInv
  <2>6. HandlerInv'
    BY <1>1, <1>11, <2>3, <2>4, <2>5, HandlerKeeps DEF Same
  <2>7. QED
    BY <2>1, <2>6
<1>12. ASSUME n > h, NEW s \in Services,
              Update(s) \/ UpdateSelf(s) \/ ReturnFromTail(s) \/ StopNext(s)
       PROVE  /\ Same /\ Top.fn \in {"update", "stop"}
              /\ \/ \E v : ReturnWith(v)
                 \/ \E f : Continue(f) /\ f.fn = "stop" /\ ~Excluded(f.svc)'
                 \/ \E f, g : /\ Invoke(f, g) /\ g.fn = "update"
                              /\ f.fn = "stop" /\ ~Excluded(f.svc)'
  <2>1. Top.fn \in {"update", "stop"} /\ Alone(Top)
    BY <1>1, <1>2, <1>6, <1>12
  <2>2. CASE Update(s)
    <3>1. Call("stop", s).fn = "stop" /\ Call("stop", s).svc = s
      BY DEF Call
    <3>2. \/ \E v \in Return : ReturnWith(v)
          \/ Continue(Call("stop", s)) /\ ~Excluded(s)'
      BY <2>2, UpdateInShutdown DEF HandlerInv
    <3>3. PICK f : f = Call("stop", s)
      OBVIOUS
    <3>4. \/ \E v : ReturnWith(v)
          \/ \E g : Continue(g) /\ g.fn = "stop" /\ ~Excluded(g.svc)'
      BY <3>1, <3>2, <3>3 DEF Excluded
    <3>5. QED
      BY <1>5, <2>1, <2>2, <3>4
  <2>3. CASE UpdateSelf(s) \/ ReturnFromTail(s) \/ StopNext(s)
    <3>1. Same
      BY <1>4, <2>3 DEF UpdateSelf, ReturnFromTail, StopNext
    <3>2. Top.fn = "stop" /\ Top.svc = s
      BY <2>1, <2>3 DEF UpdateSelf, ReturnFromTail, StopNext, Runs
    <3>3. ~Excluded(s)'
      BY <2>1, <3>1, <3>2 DEF Alone, Busy, Same
    <3>4. CASE ReturnFromTail(s)
      BY <2>1, <3>1, <3>4 DEF ReturnFromTail
    <3>5. CASE UpdateSelf(s)
      <4>1. PICK f, g : f = At("tail") /\ g = Call("update", s)
        OBVIOUS
      <4>2. Runs("stop", s, "next")
        BY <3>2, <3>5 DEF UpdateSelf, Runs
      <4>3. Invoke(f, g) /\ g.fn = "update" /\ f.fn = "stop" /\ f.svc = s
        BY <1>2, <3>5, <4>1, <4>2, GoesOnAs DEF UpdateSelf, Call
      <4>4. QED
        BY <2>1, <3>1, <3>3, <4>3
    <3>6. CASE StopNext(s)
      <4>1. PICK f, g : f = Next1 /\ g = Call("update", DependentAt(s).name)
        OBVIOUS
      <4>2. Runs("stop", s, "next")
        BY <3>6 DEF StopNext
      <4>3. Invoke(f, g) /\ g.fn = "update" /\ f.fn = "stop" /\ f.svc = s
        BY <1>2, <3>6, <4>1, <4>2, GoesOnAs DEF StopNext, Call
      <4>4. QED
        BY <2>1, <3>1, <3>3, <4>3
    <3>7. QED
      BY <2>3, <3>4, <3>5, <3>6
  <2>4. QED
    BY <1>12, <2>2, <2>3
<1>13. QED
  <2>1. \/ n = h /\ TargetNext
        \/ /\ n > h
           /\ \E s \in Services : Update(s) \/ UpdateSelf(s) \/ ReturnFromTail(s) \/ StopNext(s)
    BY <1>1, HandlerSteps
  <2>2. QED
    BY <1>10, <1>11, <1>12, <2>1 DEF Same

-----------------------------------------------------------------------------
(* The handler begins and ends.                                            *)

\* The target that the handler sets brings every service down.
LEMMA ShutdownIsAdded ==
  ASSUME SignalAssumption, SignalTarget \in SystemShutdown, TypeInv,
         tgts' = AddTarget(tgts, SignalTarget) \/ (AlreadySet(SignalTarget) /\ tgts' = tgts)
  PROVE  IsShutdown(tgts)' /\ tgts' # <<>> /\ tgts' \in Seq(Targets)
<1>1. tgts \in Seq(Targets) /\ SignalTarget \in Targets
  BY DEF TypeInv, DataTypes, SignalAssumption
<1>2. \E i \in DOMAIN tgts' : tgts'[i] = SignalTarget
  <2>1. CASE tgts' = AddTarget(tgts, SignalTarget)
    <3>1. CASE tgts' = <<SignalTarget>>
      BY <3>1
    <3>2. CASE tgts' = Append(tgts, SignalTarget)
      <4>1. Len(tgts) + 1 \in DOMAIN tgts' /\ tgts'[Len(tgts) + 1] = SignalTarget
        BY <1>1, <3>2
      <4>2. QED
        BY <4>1
    <3>3. QED
      BY <2>1, <3>1, <3>2 DEF AddTarget
  <2>2. CASE AlreadySet(SignalTarget) /\ tgts' = tgts
    BY <2>2 DEF AlreadySet
  <2>3. QED
    BY <2>1, <2>2
<1>3. AddTarget(tgts, SignalTarget) \in Seq(Targets)
  BY <1>1 DEF AddTarget
<1>4. tgts' \in Seq(Targets)
  BY <1>1, <1>3
<1>5. tgts' # <<>>
  BY <1>2
<1>6. QED
  BY <1>2, <1>4, <1>5 DEF IsShutdown, HasAttribute

\* What an interrupted call and its services are while the handler enters.
LEMMA OnintChanges ==
  ASSUME SignalAssumption, SignalTarget \in SystemShutdown, TypeInv, Onint
  PROVE  /\ IsShutdown(tgts)' /\ tgts' # <<>>
         /\ UNCHANGED <<serviceVars, edgeVars, clientVars, launchVars, ret>>
         /\ saved' = ret /\ height = 0
         /\ TypeInv'
         /\ \/ height' = 0 /\ stack' = stack
            \/ /\ \E f \in GoodFrame : OnTop(f) /\ f.fn = "setTarget" /\ MappedIn(f, services')
               /\ height' = Len(stack) + 1
               /\ faults' = faults
<1> USE DEF TypeInv
<1>1. /\ UNCHANGED <<serviceVars, edgeVars, clientVars, launchVars>>
      /\ saved' = ret /\ height = 0
  BY DEF Onint
<1>2. SignalTarget \in Targets
  BY DEF SignalAssumption
<1>3. CASE EnterFromHandler(SignalTarget) /\ height' = Len(stack) + 1
  <2> DEFINE new == AddTarget(tgts, SignalTarget)
             all == ListAll(new, services)
             f == [fn |-> "setTarget", todo |-> all \intersect Known]
  <2>1. /\ tgts' = new /\ services' = services \union all /\ OnTop(f) /\ faults' = faults
        /\ reached' \subseteq Targets /\ ran' \subseteq Targets /\ reachedTarget' = FALSE
    BY <1>3 DEF EnterFromHandler, DataTypes
  <2>2. IsShutdown(tgts)' /\ tgts' # <<>> /\ tgts' \in Seq(Targets)
    BY <2>1, ShutdownIsAdded
  <2>3. all \subseteq Services
    BY <2>1, <2>2, TargetsMentionServices DEF DataTypes
  <2> HIDE DEF all
  <2>4. f \in GoodFrame /\ f.fn = "setTarget" /\ f \notin ServiceFrame /\ f.todo \subseteq services'
    BY <2>1, <2>3 DEF TargetFrame, GoodFrame, ServiceFrame
  <2> HIDE DEF f, new
  <2>5. CallTypes'
    BY <2>1, <2>4 DEF OnTop, CallTypes
  <2>6. DataTypes'
    BY <1>1, <2>1, <2>2, <2>3 DEF DataTypes, LaunchTypeOK, serviceVars, edgeVars, clientVars,
                                  launchVars
  <2>7. MappedIn(f, services')
    BY <2>4 DEF MappedIn
  <2>8. QED
    BY <1>1, <1>3, <2>1, <2>2, <2>4, <2>5, <2>6, <2>7 DEF OnTop
<1>4. CASE EnterTargetFails(SignalTarget) /\ height' = height
  <2>1. /\ faults' \in 0..MaxFaults
        /\ reached' \subseteq Targets /\ ran' \subseteq Targets
        /\ tgts' = AddTarget(tgts, SignalTarget)
        /\ UNCHANGED <<reachedTarget, services, callVars>>
    BY <1>4, ServiceAssumption DEF EnterTargetFails, DataTypes
  <2>2. IsShutdown(tgts)' /\ tgts' # <<>> /\ tgts' \in Seq(Targets)
    BY <2>1, ShutdownIsAdded
  <2>3. CallTypes' /\ UNCHANGED <<stack, ret>>
    BY <2>1 DEF CallTypes, callVars
  <2>4. DataTypes'
    BY <1>1, <2>1, <2>2 DEF DataTypes, LaunchTypeOK, serviceVars, edgeVars, clientVars,
                            launchVars
  <2>5. QED
    BY <1>1, <1>4, <2>2, <2>3, <2>4
<1>5. CASE /\ AlreadySet(SignalTarget) /\ height' = height
           /\ UNCHANGED <<targetVars, callVars, services, faults>>
  <2>1. IsShutdown(tgts)' /\ tgts' # <<>>
    BY <1>5, ShutdownIsAdded DEF targetVars
  <2>2. TypeInv'
    BY <1>1, <1>5 DEF DataTypes, CallTypes, LaunchTypeOK, serviceVars, edgeVars, clientVars,
                      targetVars, callVars, launchVars
  <2>3. QED
    BY <1>1, <1>5, <2>1, <2>2 DEF callVars
<1>6. QED
  BY <1>3, <1>4, <1>5 DEF Onint

\* The handler enters: the invariants of PxDaemon stay, and the interrupted call
\* is kept as it is.
LEMMA OnintKeeps ==
  ASSUME SignalAssumption, SignalTarget \in SystemShutdown, IgnoreShutdown = {},
         SignalInv, MapInv, Onint
  PROVE  SignalInv' /\ MapInv'
<1> USE DEF SignalInv
<1>1. /\ IsShutdown(tgts)' /\ tgts' # <<>>
      /\ UNCHANGED <<serviceVars, edgeVars, clientVars, launchVars, ret>>
      /\ saved' = ret /\ height = 0
      /\ TypeInv'
      /\ \/ height' = 0 /\ stack' = stack
         \/ /\ \E f \in GoodFrame : OnTop(f) /\ f.fn = "setTarget" /\ MappedIn(f, services')
            /\ height' = Len(stack) + 1
            /\ faults' = faults
  BY OnintChanges
<1>2. CallTypes /\ CallTypes'
  BY <1>1 DEF TypeInv
<1>3. PICK n \in Nat : n = Len(stack)
  BY <1>2 DEF CallTypes
<1>4. saved' \in Return /\ height' \in Nat
  BY <1>1, <1>2, <1>3 DEF CallTypes
<1>5. LauncherInv'
  <2>1. faults' \in Nat /\ (faults' = 0 => faults = 0)
    BY DEF Onint, EnterFromHandler, EnterTargetFails, LauncherInv, LauncherTypes
  <2>2. UNCHANGED <<status, stage, outbox>>
    BY <1>1 DEF serviceVars, launchVars
  <2>3. QED
    BY <2>1, <2>2 DEF LauncherInv, LauncherTypes, NoStrayLauncher, NoLostLauncher, FarewellIsLast,
                      Up, Alive, WillReport
<1>6. /\ \A s \in Services : Excluded(s)' = Excluded(s) /\ (Included(s)' <=> Included(s))
      /\ LockInv /\ FrameInv /\ \A s \in Services : Unlocked(s)'
  BY <1>1 DEF serviceVars, launchVars, Excluded, Included, LockInv, Unlocked, BeingStarted,
              FinstartUnread
<1>7. UNCHANGED <<status, failLocked, deps, dependedBy>>
  BY <1>1 DEF serviceVars, edgeVars
<1>8. services \subseteq services'
  BY DEF Onint, EnterFromHandler, EnterTargetFails
<1>9. \A k \in 1..n : Made(k) \in GoodFrame
  <2>1. \A k \in 1..n : n - k + 1 \in DOMAIN stack
    BY <1>2, <1>3 DEF CallTypes
  <2>2. QED
    BY <1>2, <1>3, <2>1 DEF CallTypes, Made
<1>10. Orderly(n)
  BY <1>2, <1>3, <1>6, FramesAreOrderly
<1>11. EdgesMapped' /\ OthersInactive'
  <2>1. EdgesMapped'
    BY <1>1, <1>8, EdgesStayMapped DEF TypeInv, DataTypes, EdgeTypes, MapInv
  <2>2. QED
    BY <1>7, <1>8, <2>1 DEF MapInv, OthersInactive
<1>12. CASE height' = 0 /\ stack' = stack
  <2>1. LockInv'
    BY <1>1, <1>6, <1>7, <1>12 DEF LockInv
  <2>2. \A k \in 1..n : Made(k)' = Made(k)
    BY <1>12 DEF Made
  <2>3. Orderly(n)'
    BY <1>1, <1>6, <1>9, <1>10, <2>2, StaysOrderly
  <2>4. FrameInv'
    <3>1. \A m \in Nat : m = Len(stack') => m = n
      BY <1>3, <1>12
    <3>2. \A m \in Nat : m = Len(stack') => Orderly(m)'
      BY <2>3, <3>1
    <3>3. QED
      BY <1>2, <3>2, FramesAreOrderly
  <2>5. EdgeInv'
    <3>1. Endings' = Endings
      BY <1>12 DEF Endings
    <3>2. QED
      BY <1>6, <1>7, <3>1, SameEdges
  <2>6. CallsMapped'
    <3>1. \A k \in DOMAIN stack' : MappedIn(stack'[k], services')
      BY <1>8, <1>12, MappedGrows DEF MapInv, CallsMapped
    <3>2. QED
      BY <3>1 DEF CallsMapped, MappedIn
  <2>7. QED
    BY <1>1, <1>4, <1>5, <1>11, <1>12, <2>1, <2>4, <2>5, <2>6 DEF MapInv
<1>13. ASSUME NEW f \in GoodFrame, OnTop(f), f.fn = "setTarget", MappedIn(f, services'),
              height' = n + 1
       PROVE  SignalInv' /\ MapInv'
  <2>1. /\ Len(stack') = n + 1 /\ Made(n + 1)' = f
        /\ \A k \in 1..n : Made(k)' = Made(k)
    BY <1>2, <1>3, <1>13, MadeStays
  <2>2. PICK q, t : q \in Seq(GoodFrame) /\ q = stack /\ t = stack'
    BY <1>2 DEF CallTypes
  <2>3. /\ DOMAIN t = 1..(n + 1) /\ t[1] = f /\ \A k \in 2..(n + 1) : t[k] = q[k - 1]
        /\ DOMAIN q = 1..n
    <3>1. t = <<f>> \o q
      BY <1>13, <2>2 DEF OnTop
    <3>2. QED
      BY <1>3, <2>2, <3>1
  <2>4. Orderly(n)'
    BY <1>1, <1>6, <1>9, <1>10, <2>1, StaysOrderly
  <2>5. ASSUME NEW s \in Services, failLocked'[s], Included(s)'
        PROVE  n = 1 /\ Made(1)' = Call("update", s)
    <3>1. stack = <<Call("update", s)>>
      BY <1>6, <1>7, <2>5 DEF LockInv
    <3>2. n = 1 /\ Made(1) = Call("update", s)
      BY <1>3, <3>1 DEF Made
    <3>3. QED
      BY <2>1, <3>2
  <2>6. HandlerInv'
    <3>1. PICK h \in Nat : h = n + 1 /\ h = height' /\ h = Len(stack')
      BY <1>13, <2>1
    <3>2. h - 1 = n /\ (h + 1)..h = {} /\ h \in 1..h
      BY <3>1
    <3>3. QED
      BY <1>1, <1>6, <1>13, <2>1, <2>4, <2>5, <3>1, <3>2 DEF HandlerInv
  <2>7. EdgeInv'
    <3>1. Endings' = Endings
      <4> DEFINE EndingsIn(u) == {u[k] : k \in {j \in DOMAIN u : u[j].fn = "finishStop"}}
      <4>1. Endings = EndingsIn(q) /\ Endings' = EndingsIn(t)
        BY <2>2 DEF Endings
      <4>2. /\ \A k \in DOMAIN t : k = 1 \/ (k - 1 \in DOMAIN q /\ t[k] = q[k - 1])
            /\ \A k \in DOMAIN q : k + 1 \in DOMAIN t /\ t[k + 1] = q[k]
        BY <2>3
      <4>3. EndingsIn(t) = EndingsIn(q)
        BY <1>13, <2>3, <4>2
      <4>4. QED
        BY <4>1, <4>3
    <3>2. QED
      BY <1>6, <1>7, <3>1, SameEdges
  <2>8. CallsMapped'
    <3>1. \A k \in DOMAIN q : MappedIn(q[k], services')
      BY <1>8, <2>2, MappedGrows DEF MapInv, CallsMapped
    <3>2. \A k \in DOMAIN t : MappedIn(t[k], services')
      BY <1>13, <2>3, <3>1
    <3>3. QED
      BY <2>2, <3>2 DEF CallsMapped, MappedIn
  <2>9. height' # 0
    BY <1>13
  <2>10. QED
    BY <1>1, <1>4, <1>5, <1>11, <2>6, <2>7, <2>8, <2>9 DEF MapInv
<1>14. QED
  BY <1>1, <1>3, <1>12, <1>13

\* The handler returns, and leaves the interrupted call as it was.
LEMMA HandlerReturnKeeps ==
  ASSUME IgnoreShutdown = {}, SignalInv, MapInv, HandlerReturn
  PROVE  SignalInv' /\ MapInv'
<1> USE DEF SignalInv
<1>1. PICK h : /\ h \in Nat \ {0} /\ h = height /\ h = Len(stack)
  BY DEF HandlerReturn, HandlerAtEnd
<1>2. HandlerInv /\ CallTypes /\ saved \in Return
  BY <1>1 DEF TypeInv
<1>3. stack # <<>> /\ ReturnWith(saved) /\ Top = Made(h) /\ Top.fn = "setTarget"
  <2>1. stack # <<>>
    BY <1>1, <1>2 DEF CallTypes
  <2>2. QED
    BY <1>1, <1>2, <2>1, MadeStays DEF HandlerReturn, ReturnWith, HandlerInv
<1>4. /\ Len(stack') = h - 1
      /\ \A k \in 1..(h - 1) : Made(k)' = Made(k)
  BY <1>1, <1>2, <1>3, MadeStays
<1>5. CallTypes'
  BY <1>2, <1>3, ReturnTypes
<1>6. /\ UNCHANGED <<serviceVars, edgeVars, clientVars, services, faults, launchVars>>
      /\ height' = 0 /\ saved' = saved /\ tgts' = tgts /\ CheckReach
  BY DEF HandlerReturn, CheckReach
<1>7. TypeInv'
  <2>1. /\ reached' \subseteq Targets /\ reachedTarget' \in BOOLEAN
        /\ ran' \subseteq Targets /\ tgts' \in Seq(Targets)
    BY <1>6, CheckReachTypes DEF TypeInv
  <2>2. DataTypes'
    BY <1>6, <2>1 DEF TypeInv, DataTypes, LaunchTypeOK, serviceVars, edgeVars, clientVars,
                      launchVars
  <2>3. QED
    BY <1>5, <2>2 DEF TypeInv
<1>8. LauncherInv'
  BY <1>6 DEF serviceVars, launchVars, LauncherInv, LauncherTypes, NoStrayLauncher, NoLostLauncher,
              FarewellIsLast, Up, Alive, WillReport
<1>9. \A s \in Services : /\ Excluded(s)' = Excluded(s)
                          /\ Included(s)' = Included(s)
                          /\ Unlocked(s)' = Unlocked(s)
  BY <1>6 DEF serviceVars, launchVars, Excluded, Included, Unlocked, BeingStarted, FinstartUnread
<1>10. EdgeInv'
  <2>1. Endings' = Endings
    BY <1>2, <1>3, SameEndings
  <2>2. QED
    BY <1>6, <1>9, <2>1, SameEdges DEF edgeVars
<1>11. FrameInv'
  <2>1. Orderly(h - 1) /\ h - 1 \in Nat
    BY <1>1, <1>2 DEF HandlerInv
  <2>2. \A k \in 1..(h - 1) : Made(k) \in GoodFrame
    <3>1. \A k \in 1..(h - 1) : Len(stack) - k + 1 \in DOMAIN stack
      BY <1>1, <1>2 DEF CallTypes
    <3>2. QED
      BY <1>2, <3>1 DEF CallTypes, Made
  <2>3. IsShutdown(tgts)'
    BY <1>2, <1>6 DEF HandlerInv, IsShutdown, HasAttribute
  <2>4. Orderly(h - 1)'
    BY <1>4, <1>9, <2>1, <2>2, <2>3, StaysOrderly
  <2>5. \A m \in Nat : m = Len(stack') => m = h - 1
    BY <1>4
  <2>6. \A m \in Nat : m = Len(stack') => Orderly(m)'
    BY <2>4, <2>5
  <2>7. QED
    BY <1>5, <2>6, FramesAreOrderly
<1>12. LockInv'
  <2>1. ASSUME NEW s \in Services, failLocked'[s], Included(s)'
        PROVE  stack' = <<Call("update", s)>>
    <3>1. h = 2 /\ Made(1) = Call("update", s)
      BY <1>1, <1>2, <1>6, <1>9, <2>1 DEF HandlerInv, serviceVars
    <3>2. PICK t \in Seq(GoodFrame) : t = stack'
      BY <1>5 DEF CallTypes
    <3>3. Len(t) = 1 /\ t[1] = Call("update", s)
      BY <1>4, <3>1, <3>2 DEF Made
    <3>4. t = <<Call("update", s)>>
      BY <3>3
    <3>5. QED
      BY <3>2, <3>4
  <2>2. \A s \in Services : Unlocked(s)'
    BY <1>2, <1>9 DEF HandlerInv
  <2>3. tgts' # <<>>
    BY <1>2, <1>6 DEF HandlerInv, IsShutdown, HasAttribute
  <2>4. QED
    BY <2>1, <2>2, <2>3 DEF LockInv
<1>13. MapInv'
  BY <1>3, <1>6, MapFromCall DEF TypeInv, serviceVars
<1>14. QED
  BY <1>1, <1>6, <1>7, <1>8, <1>10, <1>11, <1>12, <1>13

-----------------------------------------------------------------------------
(* Every step.                                                             *)

\* A step of PxDaemon while the handler does not run.
LEMMA DaemonKeeps ==
  ASSUME Acyclic, IgnoreClosed, SignalInv, MapInv, height = 0, height' = 0, saved' = saved,
         [Next]_vars
  PROVE  SignalInv' /\ MapInv'
<1>1. Upright
  BY DEF SignalInv, Upright, EdgesInv
<1>2. Upright'
  BY <1>1, UprightKeeps
<1>3. MapInv'
  BY <1>1, NextMap DEF Upright
<1>4. QED
  BY <1>2, <1>3 DEF SignalInv, Upright, EdgesInv

\* A step of a launcher, or none, while the handler runs.
LEMMA LauncherKeeps ==
  ASSUME SignalInv, MapInv, height # 0, UNCHANGED <<height, saved>>,
         UNCHANGED vars \/ \E s \in Services : Launch(s)
  PROVE  SignalInv' /\ MapInv'
<1> USE DEF SignalInv
<1>1. TypeInv' /\ LauncherInv' /\ MapInv'
  <2>1. [Next]_vars
    BY DEF Next
  <2>2. QED
    BY <2>1, NextTypes, NextLauncher, NextMap
<1>2. /\ UNCHANGED <<status, failLocked, deps, dependedBy, stack, tgts>>
      /\ \A s \in Services : Unlocked(s)'
  <2>1. CASE UNCHANGED vars
    BY <2>1 DEF vars, serviceVars, edgeVars, callVars, targetVars, launchVars, HandlerInv, Unlocked,
                BeingStarted, FinstartUnread
  <2>2. CASE \E s \in Services : Launch(s)
    BY <2>2, LaunchUnlocked DEF Launch, serviceVars, edgeVars, callVars, targetVars, HandlerInv
  <2>3. QED
    BY <2>1, <2>2
<1>3. EdgeInv'
  <2>1. Endings' = Endings /\ \A s \in Services : Excluded(s)' = Excluded(s)
    BY <1>2 DEF Endings, Excluded
  <2>2. QED
    BY <1>2, <2>1, SameEdges
<1>4. HandlerInv'
  <2>1. /\ \A k : Made(k)' = Made(k)
        /\ \A s : /\ Excluded(s)' = Excluded(s) /\ Included(s)' = Included(s)
                  /\ MustStop(s)' = MustStop(s)
        /\ IsShutdown(tgts)' = IsShutdown(tgts)
    BY <1>2 DEF Made, Excluded, Included, MustStop, IsShutdown, HasAttribute
  <2>2. \A k : Alone(Made(k)) => Alone(Made(k))'
    BY <2>1 DEF Alone, Busy, Excluded
  <2>3. \A j, k : Nested(Made(j), Made(k)) => Nested(Made(j), Made(k))'
    BY <1>2, <2>1 DEF Nested, Calm, Climbs, Excluded, MustStop
  <2>4. Orderly(height - 1) => Orderly(height - 1)'
    BY <2>2, <2>3 DEF Orderly
  <2>5. QED
    BY <1>2, <2>1, <2>2, <2>4 DEF HandlerInv
<1>5. QED
  BY <1>1, <1>3, <1>4

\* A step of one of the handler's calls.
LEMMA HandlerStepKeeps ==
  ASSUME IgnoreShutdown = {}, SignalInv, MapInv, height # 0, UNCHANGED <<height, saved>>,
         Run, ~HandlerAtEnd
  PROVE  SignalInv' /\ MapInv'
<1> USE DEF SignalInv
<1>1. TypeInv' /\ LauncherInv' /\ MapInv'
  <2>1. [Next]_vars
    BY DEF Next
  <2>2. QED
    BY <2>1, NextTypes, NextLauncher, NextMap
<1>2. /\ HandlerInv' /\ UNCHANGED edgeVars /\ Endings' = Endings
      /\ \A r \in Services : Excluded(r)' = Excluded(r)
  BY HandlerRuns
<1>3. EdgeInv'
  BY <1>2, SameEdges DEF edgeVars
<1>4. QED
  BY <1>1, <1>2, <1>3

\* What setTarget() does before the updates, when main() calls it: no call is in
\* progress, and only the frame of its own comes to be.
LEMMA MainChanges ==
  ASSUME SignalAssumption, SignalInv, EnteringInv, OfMain(SetsTarget)
  PROVE  /\ height = 0 /\ stack = <<>>
         /\ UNCHANGED <<serviceVars, edgeVars, launchVars, height, saved>>
         /\ TypeInv' /\ EnteringInv'
         /\ services \subseteq services'
         /\ faults' \in Nat /\ (faults' = 0 => faults = 0)
         /\ \/ stack' = stack
            \/ /\ tgts' # <<>>
               /\ \E f \in GoodFrame :
                    stack' = <<f>> /\ f.fn = "setTarget" /\ MappedIn(f, services')
<1> USE DEF SignalInv, TypeInv
<1>1. stack = <<>> /\ UNCHANGED <<height, saved>>
  BY DEF OfMain, SetsTarget, Checks, Adds, Resets, Lists, RequestTarget, AtStep
<1>2. height = 0
  <2>1. Len(stack) = 0
    BY <1>1
  <2>2. height # 0 => height \in 1..Len(stack)
    BY DEF HandlerInv
  <2>3. QED
    BY <2>1, <2>2
<1>3. faults \in Nat /\ entering.target \in Targets
  BY DEF EnteringInv, LauncherInv, LauncherTypes
<1>4. CASE Checks
  <2>1. entering'.target = entering.target /\ entering'.at \in {"done", "add"}
    BY <1>4 DEF Checks, GoesTo, Enters
  <2>2. UNCHANGED vars
    BY <1>4 DEF Checks
  <2>3. TypeInv'
    BY <2>2 DEF DataTypes, CallTypes, LaunchTypeOK, vars, serviceVars, edgeVars, clientVars,
                targetVars, callVars, launchVars
  <2>4. EnteringInv'
    BY <1>3, <2>1 DEF EnteringInv
  <2>5. QED
    BY <1>1, <1>2, <1>3, <2>2, <2>3, <2>4 DEF vars, callVars
<1>5. CASE Adds
  <2>1. PICK t \in Targets : t = entering.target
    BY <1>3
  <2>2. /\ tgts' = AddTarget(tgts, t)
        /\ reached' \subseteq Targets /\ ran' \subseteq Targets
        /\ UNCHANGED <<serviceVars, edgeVars, clientVars, reachedTarget, services, callVars,
                       launchVars>>
    BY <1>5, <2>1 DEF Adds, DataTypes
  <2>3. faults' = faults \/ (faults < MaxFaults /\ faults' = faults + 1)
    BY <1>5 DEF Adds
  <2>4. faults' \in 0..MaxFaults /\ faults' \in Nat /\ (faults' = 0 => faults = 0)
    BY <1>3, <2>3, ServiceAssumption DEF DataTypes
  <2>5. tgts' \in Seq(Targets) /\ tgts' # <<>>
    <3>1. tgts \in Seq(Targets) /\ (tgts' = <<t>> \/ tgts' = Append(tgts, t))
      BY <2>2 DEF AddTarget, DataTypes
    <3>2. CASE tgts' = <<t>>
      BY <3>2
    <3>3. CASE tgts' = Append(tgts, t)
      <4>1. Len(tgts') = Len(tgts) + 1 /\ Len(tgts) \in Nat /\ tgts' \in Seq(Targets)
        BY <3>1, <3>3
      <4>2. QED
        BY <4>1
    <3>4. QED
      BY <3>1, <3>2, <3>3
  <2>6. entering'.target = t
    BY <1>5, <2>1 DEF Adds, GoesTo, Enters
  <2>7. DataTypes'
    BY <2>2, <2>4, <2>5 DEF DataTypes, LaunchTypeOK, serviceVars, edgeVars, clientVars, launchVars
  <2>8. CallTypes' /\ stack' = stack
    BY <2>2 DEF CallTypes, callVars
  <2>9. QED
    BY <1>1, <1>2, <2>2, <2>4, <2>5, <2>6, <2>7, <2>8 DEF EnteringInv
<1>6. CASE Resets
  <2>1. /\ reachedTarget' \in BOOLEAN
        /\ UNCHANGED <<serviceVars, edgeVars, clientVars, tgts, reached, ran, services, faults,
                       callVars, launchVars>>
    BY <1>6 DEF Resets
  <2>2. entering'.target = entering.target /\ tgts # <<>>
    BY <1>6 DEF Resets, GoesTo, Enters, AtStep, EnteringInv
  <2>3. DataTypes'
    BY <2>1 DEF DataTypes, LaunchTypeOK, serviceVars, edgeVars, clientVars, launchVars
  <2>4. CallTypes' /\ stack' = stack
    BY <2>1 DEF CallTypes, callVars
  <2>5. QED
    BY <1>1, <1>2, <1>3, <2>1, <2>2, <2>3, <2>4 DEF EnteringInv
<1>7. CASE Lists
  <2> DEFINE all == ListAll(tgts, services)
             f == [fn |-> "setTarget", todo |-> all \intersect Known]
  <2>1. /\ services' = services \union all /\ stack' = <<f>> /\ ret' = "idle"
        /\ UNCHANGED <<serviceVars, edgeVars, clientVars, targetVars, faults, launchVars>>
    BY <1>7 DEF Lists, Serve
  <2>2. all \subseteq Services
    BY TargetsMentionServices DEF DataTypes
  <2> HIDE DEF all
  <2>3. f \in GoodFrame /\ f.fn = "setTarget" /\ f \notin ServiceFrame /\ f.todo \subseteq services'
    BY <2>1, <2>2 DEF TargetFrame, GoodFrame, ServiceFrame
  <2> HIDE DEF f
  <2>4. CallTypes'
    BY <2>1, <2>3 DEF CallTypes, Return
  <2>5. DataTypes'
    BY <2>1, <2>2 DEF DataTypes, LaunchTypeOK, serviceVars, edgeVars, clientVars, targetVars,
                      launchVars
  <2>6. MappedIn(f, services')
    BY <2>3 DEF MappedIn
  <2>7. entering'.target = entering.target /\ tgts # <<>> /\ tgts' = tgts
    BY <1>7, <2>1 DEF Lists, GoesTo, Enters, AtStep, EnteringInv, targetVars
  <2>8. QED
    BY <1>1, <1>2, <1>3, <2>1, <2>3, <2>4, <2>5, <2>6, <2>7 DEF EnteringInv
<1>8. CASE \E c \in Clients : RequestTarget(c)
  <2>1. PICK c \in Clients : RequestTarget(c)
    BY <1>8
  <2>2. /\ reply' = [reply EXCEPT ![c] = "pending"]
        /\ UNCHANGED <<serviceVars, edgeVars, subscribed, targetVars, callVars, services, faults,
                       launchVars>>
        /\ \E t \in Targets : entering' = [target |-> t, at |-> "check"]
    BY <2>1 DEF RequestTarget, Enters
  <2>3. reply' \in [Clients -> Reply]
    BY <2>2 DEF DataTypes, Reply
  <2>4. DataTypes'
    BY <2>2, <2>3 DEF DataTypes, LaunchTypeOK, serviceVars, edgeVars, targetVars, launchVars
  <2>5. CallTypes' /\ stack' = stack
    BY <2>2 DEF CallTypes, callVars
  <2>6. EnteringInv'
    BY <2>2 DEF EnteringInv
  <2>7. QED
    BY <1>1, <1>2, <1>3, <2>2, <2>4, <2>5, <2>6
<1>9. QED
  BY <1>4, <1>5, <1>6, <1>7, <1>8 DEF OfMain, SetsTarget

\* main() sets a target, step by step.
LEMMA MainKeeps ==
  ASSUME SignalAssumption, SignalInv, MapInv, EnteringInv, OfMain(SetsTarget)
  PROVE  SignalInv' /\ MapInv'
<1> USE DEF SignalInv
<1>1. /\ height = 0 /\ stack = <<>>
      /\ UNCHANGED <<serviceVars, edgeVars, launchVars, height, saved>>
      /\ TypeInv'
      /\ services \subseteq services'
      /\ faults' \in Nat /\ (faults' = 0 => faults = 0)
  BY MainChanges
<1>2. UNCHANGED <<status, failLocked, deps, dependedBy, stage, outbox>>
  BY <1>1 DEF serviceVars, edgeVars, launchVars
<1>3. LauncherInv'
  BY <1>1, <1>2 DEF LauncherInv, LauncherTypes, NoStrayLauncher, NoLostLauncher, FarewellIsLast,
                    Up, Alive, WillReport
<1>4. /\ \A s \in Services : Excluded(s)' = Excluded(s) /\ (Included(s)' <=> Included(s))
      /\ LockInv /\ \A s \in Services : Unlocked(s)'
  BY <1>1, <1>2 DEF launchVars, Excluded, Included, LockInv, Unlocked, BeingStarted, FinstartUnread
<1>5. \A s \in Services : ~(failLocked'[s] /\ Included(s)')
  BY <1>1, <1>2, <1>4 DEF LockInv
<1>6. EdgesMapped' /\ OthersInactive'
  <2>1. EdgesMapped'
    BY <1>1, EdgesStayMapped DEF TypeInv, DataTypes, EdgeTypes, MapInv
  <2>2. QED
    BY <1>1, <1>2, <2>1 DEF MapInv, OthersInactive
<1>7. CASE stack' = stack
  <2>1. LockInv' /\ FrameInv' /\ CallsMapped'
    BY <1>1, <1>4, <1>5, <1>7 DEF LockInv, FrameInv, CallsMapped
  <2>2. Endings' = Endings
    BY <1>7 DEF Endings
  <2>3. EdgeInv'
    BY <1>2, <1>4, <2>2, SameEdges
  <2>4. QED
    BY <1>1, <1>3, <1>6, <2>1, <2>3 DEF MapInv
<1>8. CASE /\ tgts' # <<>>
           /\ \E f \in GoodFrame :
                stack' = <<f>> /\ f.fn = "setTarget" /\ MappedIn(f, services')
  <2>1. PICK f \in GoodFrame : stack' = <<f>> /\ f.fn = "setTarget" /\ MappedIn(f, services')
    BY <1>8
  <2>2. PICK t : t = stack' /\ DOMAIN t = {1} /\ t[1] = f
    BY <2>1
  <2>3. LockInv'
    BY <1>4, <1>5, <1>8 DEF LockInv
  <2>4. FrameInv'
    <3>1. Alone(f)'
      BY <2>1 DEF Alone, Busy
    <3>2. \A k \in DOMAIN t : Alone(t[k])' /\ 1..(k - 1) = {}
      BY <2>2, <3>1 DEF Alone, Busy
    <3>3. QED
      BY <2>2, <3>2 DEF FrameInv, Alone, Busy
  <2>5. Endings' = Endings
    BY <1>1, <2>1, <2>2 DEF Endings
  <2>6. EdgeInv'
    BY <1>2, <1>4, <2>5, SameEdges
  <2>7. CallsMapped'
    BY <2>1, <2>2 DEF CallsMapped, MappedIn
  <2>8. QED
    BY <1>1, <1>3, <1>6, <2>3, <2>4, <2>6, <2>7 DEF MapInv
<1>9. QED
  BY <1>7, <1>8, MainChanges

\* Only setTarget() changes which targets are set.
LEMMA TargetsStay ==
  ASSUME TypeInv, [SignalNext]_<<vars, signalVars>>, ~Onint, ~OfMain(SetsTarget)
  PROVE  tgts' = tgts
<1>1. CASE Press \/ UNCHANGED <<vars, signalVars>>
  BY <1>1 DEF Press, vars, targetVars
<1>2. CASE HandlerReturn
  BY <1>2 DEF HandlerReturn, CheckReach
<1>3. CASE OfTheDaemon(Undisturbed)
  <2>1. CASE \E c \in Clients : Request(c) /\ UNCHANGED tgts
    BY <2>1
  <2>2. ASSUME NEW s \in Services, Deliver(s) \/ Launch(s) PROVE tgts' = tgts
    <3>1. CASE Deliver(s)
      <4>1. Head(outbox[s]) \in Message /\ Handler(s, Head(outbox[s]))
        BY <3>1 DEF Deliver, TypeInv, DataTypes, LaunchTypeOK
      <4>2. QED
        BY <4>1 DEF Handler, Message, FinishStartService, ServiceFinishes, FailService,
                    FinishStopService, targetVars
    <3>2. CASE Launch(s)
      BY <3>2 DEF Launch, targetVars
    <3>3. QED
      BY <2>2, <3>1, <3>2
  <2>3. CASE Run
    <3>1. ASSUME NEW s \in Services, Update(s) PROVE tgts' = tgts
      BY <3>1 DEF Update, RawStart, RawStartFails, RawStop, BeginStart, BeginStop, UpdateIsIdle,
                  targetVars
    <3>2. \/ UNCHANGED targetVars
          \/ \E s \in Services : Update(s)
          \/ CheckReach
      BY <2>3 DEF Run, ServiceStep, CommandReturns, TargetNext, TargetEnds, StartDepends,
                  StartDepended, StartTriesAfter, StartTriedAfter, StartAddedAfter, UpdateSelf,
                  ReturnFromTail, StopNext, CascadeEnters, CascadeNext, FinishStartNext,
                  FinishStartFails, FinishStartEnds, FinishStopNext, FinishStopEnds
    <3>3. QED
      BY <3>1, <3>2 DEF targetVars, CheckReach
  <2>4. QED
    BY <1>3, <2>1, <2>2, <2>3 DEF OfTheDaemon, Undisturbed
<1>4. QED
  BY <1>1, <1>2, <1>3 DEF SignalNext

\* Init establishes the invariant and every step keeps it.
LEMMA SignalsKeep ==
  ASSUME Acyclic, IgnoreShutdown = {}, SignalAssumption, SignalTarget \in SystemShutdown
  PROVE  /\ SignalInit => SignalInv /\ MapInv /\ EnteringInv
         /\ SignalInv /\ MapInv /\ EnteringInv /\ [SignalNext]_<<vars, signalVars>>
              => SignalInv' /\ MapInv' /\ EnteringInv'
<1>1. IgnoreClosed
  BY DEF IgnoreClosed
<1>2. ASSUME SignalInit PROVE SignalInv /\ MapInv /\ EnteringInv
  <2>1. Upright /\ MapInv
    BY <1>1, <1>2, UprightKeeps, InitMap DEF SignalInit
  <2>2. EnteringInv
    BY <1>2, DaemonAssumption DEF SignalInit, EnteringInv
  <2>3. QED
    BY <1>2, <2>1, <2>2 DEF SignalInv, SignalInit, Upright, EdgesInv, Return
<1>3. ASSUME SignalInv, MapInv, EnteringInv, [SignalNext]_<<vars, signalVars>>
      PROVE  SignalInv' /\ MapInv'
  <2>1. CASE Press \/ UNCHANGED <<vars, signalVars>>
    <3>1. UNCHANGED <<vars, height, saved>>
      BY <2>1 DEF Press, signalVars
    <3>2. CASE height = 0
      BY <1>1, <1>3, <3>1, <3>2, DaemonKeeps
    <3>3. CASE height # 0
      BY <1>3, <3>1, <3>3, LauncherKeeps
    <3>4. QED
      BY <3>2, <3>3
  <2>2. CASE Onint
    BY <1>3, <2>2, OnintKeeps
  <2>3. CASE HandlerReturn
    BY <1>3, <2>3, HandlerReturnKeeps
  <2>4. CASE OfTheDaemon(Undisturbed)
    <3>1. Undisturbed /\ UNCHANGED <<height, saved>>
      BY <2>4 DEF OfTheDaemon, signalVars
    <3>2. CASE height = 0
      <4>1. Next
        BY <3>1 DEF Undisturbed, Next
      <4>2. QED
        BY <1>1, <1>3, <3>1, <3>2, <4>1, DaemonKeeps
    <3>3. CASE height # 0
      <4>1. HandlerInv /\ CallTypes
        BY <1>3, <3>3 DEF SignalInv, TypeInv
      <4>2. stack # <<>> /\ tgts # <<>>
        <5>1. Len(stack) # 0
          BY <4>1 DEF HandlerInv, CallTypes
        <5>2. QED
          BY <4>1, <5>1 DEF HandlerInv, IsShutdown, HasAttribute
      <4>3. (\E s \in Services : Launch(s)) \/ (Run /\ ~HandlerAtEnd)
        BY <3>1, <4>2 DEF Undisturbed, Request, Deliver, Idle
      <4>4. QED
        BY <1>3, <3>1, <3>3, <4>3, LauncherKeeps, HandlerStepKeeps
    <3>4. QED
      BY <3>2, <3>3
  <2>5. CASE OfMain(SetsTarget)
    BY <1>3, <2>5, MainKeeps
  <2>6. QED
    BY <1>3, <2>1, <2>2, <2>3, <2>4, <2>5 DEF SignalNext
<1>4. ASSUME SignalInv, MapInv, EnteringInv, [SignalNext]_<<vars, signalVars>>
      PROVE  EnteringInv'
  <2>1. CASE OfMain(SetsTarget)
    BY <1>4, <2>1, MainChanges
  <2>2. CASE ~OfMain(SetsTarget)
    <3>1. entering' = entering
      BY <1>4, <2>2 DEF SignalNext, Press, Onint, HandlerReturn, OfTheDaemon, signalVars
    <3>2. tgts # <<>> => tgts' # <<>>
      <4>1. CASE Onint
        BY <1>4, <4>1, OnintChanges DEF SignalInv
      <4>2. CASE ~Onint
        <5>1. tgts' = tgts
          BY <1>4, <2>2, <4>2, TargetsStay DEF SignalInv
        <5>2. QED
          BY <5>1
      <4>3. QED
        BY <4>1, <4>2
    <3>3. QED
      BY <1>4, <3>1, <3>2 DEF EnteringInv
  <2>3. QED
    BY <2>1, <2>2
<1>5. QED
  BY <1>2, <1>3, <1>4

-----------------------------------------------------------------------------
(* Between two calls, and in a shutdown.                                   *)

\* The handler neither makes a shutdown quiet nor disturbs a quiet one.
LEMMA StaysQuiet ==
  ASSUME IgnoreShutdown = {}, SignalAssumption, SignalTarget \in SystemShutdown,
         SignalInv, SignalInv', MapInv, EnteringInv, ShutdownIsQuiet,
         [SignalNext]_<<vars, signalVars>>
  PROVE  ShutdownIsQuiet'
<1> USE DEF SignalInv
<1>1. CASE [Next]_vars
  BY <1>1, QuietStep
<1>2. SUFFICES ASSUME Onint \/ HandlerReturn \/ OfMain(SetsTarget),
                      HasAttribute(tgts, ran \intersect SystemShutdown)',
                      NEW s \in Known
               PROVE  Excluded(s)' /\ ~Alive(s)'
  <2>1. Onint \/ HandlerReturn \/ OfMain(SetsTarget) \/ [Next]_vars
    BY DEF SignalNext, Press, OfTheDaemon, Undisturbed, Next
  <2>2. QED
    BY <1>1, <2>1 DEF ShutdownIsQuiet
<1>3. status' = status /\ s \in Services \ IgnoreShutdown /\ s \in Known \ IgnoreShutdown
  <2>1. UNCHANGED serviceVars
    BY <1>2, MainChanges DEF Onint, HandlerReturn
  <2>2. QED
    BY <1>2, <2>1, ServiceAssumption DEF serviceVars
<1>4. Excluded(s)'
  <2>1. CASE HandlerReturn
    <3>1. \/ HasAttribute(tgts, ran \intersect SystemShutdown)
          \/ Excluded(s)'
      BY <1>2, <1>3, <2>1, ReachedIsQuiet DEF HandlerReturn
    <3>2. QED
      BY <1>3, <3>1 DEF ShutdownIsQuiet, Excluded
  <2>2. CASE Onint
    <3>1. \/ UNCHANGED <<tgts, ran>>
          \/ tgts' = AddTarget(tgts, SignalTarget) /\ ran' = ran \ {SignalTarget}
      BY <2>2 DEF Onint, EnterFromHandler, EnterTargetFails, targetVars
    <3>2. HasAttribute(tgts, ran \intersect SystemShutdown)
      <4>1. CASE UNCHANGED <<tgts, ran>>
        BY <1>2, <4>1 DEF HasAttribute
      <4>2. CASE tgts' = AddTarget(tgts, SignalTarget) /\ ran' = ran \ {SignalTarget}
        <5>1. PICK i \in DOMAIN tgts' :
                tgts'[i] \in (ran \ {SignalTarget}) \intersect SystemShutdown
          BY <1>2, <4>2 DEF HasAttribute
        <5>2. tgts'[i] # SignalTarget /\ tgts \in Seq(Targets)
          BY <5>1 DEF TypeInv, DataTypes
        <5>3. i \in DOMAIN tgts /\ tgts'[i] = tgts[i]
          BY <4>2, <5>1, <5>2 DEF AddTarget
        <5>4. QED
          BY <5>1, <5>3 DEF HasAttribute
      <4>3. QED
        BY <3>1, <4>1, <4>2
    <3>3. QED
      BY <1>3, <3>2 DEF ShutdownIsQuiet, Excluded
  <2>3. CASE OfMain(SetsTarget)
    <3>1. \/ UNCHANGED <<tgts, ran>>
          \/ /\ tgts' = AddTarget(tgts, entering.target)
             /\ ran' = (IF AlreadySet(entering.target) THEN ran ELSE ran \ {entering.target})
      BY <2>3 DEF OfMain, SetsTarget, Checks, Adds, Resets, Lists, RequestTarget, vars, targetVars
    <3>2. HasAttribute(tgts, ran \intersect SystemShutdown)
      <4>1. CASE UNCHANGED <<tgts, ran>>
        BY <1>2, <4>1 DEF HasAttribute
      <4>2. CASE /\ tgts' = AddTarget(tgts, entering.target)
                 /\ ran' = (IF AlreadySet(entering.target) THEN ran ELSE ran \ {entering.target})
        <5>1. PICK i \in DOMAIN tgts' : tgts'[i] \in ran' /\ tgts'[i] \in SystemShutdown
          BY <1>2 DEF HasAttribute
        <5>2. tgts \in Seq(Targets) /\ ran' \subseteq ran
          BY <4>2 DEF TypeInv, DataTypes
        <5>3. CASE tgts'[i] = entering.target
          <6>1. AlreadySet(entering.target)
            BY <4>2, <5>1, <5>3
          <6>2. QED
            BY <5>1, <5>2, <5>3, <6>1 DEF AlreadySet, HasAttribute
        <5>4. CASE tgts'[i] # entering.target
          <6>1. i \in DOMAIN tgts /\ tgts'[i] = tgts[i]
            BY <4>2, <5>1, <5>2, <5>4 DEF AddTarget
          <6>2. QED
            BY <5>1, <5>2, <6>1 DEF HasAttribute
        <5>5. QED
          BY <5>3, <5>4
      <4>3. QED
        BY <3>1, <4>1, <4>2
    <3>3. QED
      BY <1>3, <3>2 DEF ShutdownIsQuiet, Excluded
  <2>4. QED
    BY <1>2, <2>1, <2>2, <2>3
<1>5. ~Alive(s)'
  <2>1. ~Up(s)'
    BY <1>4 DEF Excluded, Up
  <2>2. QED
    BY <1>3, <2>1 DEF LauncherInv, NoStrayLauncher
<1>6. QED
  BY <1>4, <1>5

\* Ctrl-alt-delete in the middle of any call (onint of PxDaemon.cpp) leaves deps and
\* dependedBy each other's mirror image between two calls, and the shutdown it
\* begins leaves nothing up that the interrupted call was about to start.
THEOREM CtrlAltDelete ==
  ASSUME Acyclic, IgnoreShutdown = {}, SignalAssumption, SignalTarget \in SystemShutdown
  PROVE  SignalSpec => []ListsAgree
<1>1. SignalInit => ShutdownIsQuiet
  BY DEF SignalInit, Init, ShutdownIsQuiet, HasAttribute
<1>2. SignalInv => EdgesMatch
  <2>1. SUFFICES ASSUME SignalInv, Quiescent PROVE EdgesMatch
    BY DEF EdgesMatch
  <2>2. \A q, e : Occurrences(q, e) = Count(q, {e})
    <3>1. \A q, e : {i \in DOMAIN q : q[i] = e} = Places(q, {e})
      BY DEF Places
    <3>2. QED
      BY <3>1 DEF Occurrences, Count
  <2>3. \A s : ~WalksDependencies(s)
    BY <2>1 DEF Quiescent, WalksDependencies
  <2>4. QED
    BY <2>1, <2>2, <2>3 DEF SignalInv, EdgeInv, Mirror, EdgesMatch, To
<1>3. /\ SignalInit => SignalInv /\ MapInv /\ EnteringInv
      /\ SignalInv /\ MapInv /\ EnteringInv /\ [SignalNext]_<<vars, signalVars>>
           => SignalInv' /\ MapInv' /\ EnteringInv'
  BY SignalsKeep
<1>4. SignalInv /\ SignalInv' /\ MapInv /\ EnteringInv /\ ShutdownIsQuiet
        /\ [SignalNext]_<<vars, signalVars>> => ShutdownIsQuiet'
  BY StaysQuiet
<1>5. EdgesMatch /\ ShutdownIsQuiet => ListsAgree
  BY DEF ListsAgree
<1>6. QED
  BY <1>1, <1>2, <1>3, <1>4, <1>5, PTL DEF SignalSpec
=============================================================================
