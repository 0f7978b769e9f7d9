-------------------------- MODULE PxDaemonSupervised -------------------------
(***************************************************************************)
(* PxDaemon implements PxSupervision: through all the nested calls, errors *)
(* and changes of mind a service is brought up only while all it requires  *)
(* is running, and told to stop only while nothing that requires it is up. *)
(* For any instance in which, beside what PxDaemonEdges assumes,           *)
(*   - every service on a mandatory Depend line is installed.              *)
(* Otherwise start() gives up at a line before it has looked at the next   *)
(* ones, and the service is started when those it has looked at run.       *)
(***************************************************************************)
EXTENDS PxDaemonEdges

(* The invariant.                                                          *)

AllInstalled == \A s \in Services : Required(s) \subseteq Known

\* The mandatory lines of s before line n are in deps[s]; all of them are.
Recorded(s, e) == \E i \in DOMAIN deps[s] : deps[s][i] = e
Has(s, n) ==
  \A j \in DOMAIN Depend[s] :
    j < n /\ ~Depend[s][j].optional => Recorded(s, Depend[s][j])
Complete(s) == Has(s, Len(Depend[s]) + 1)

\* s is somewhere in start().
InStart(s) == \E k \in DOMAIN stack : stack[k].fn = "start" /\ stack[k].svc = s

\* A service whose fork has failed is Starting for ever, and so Waiting for ever
\* are those that wait for it, or for one of these.
Stillborn(s) == status[s] = "Starting" /\ ~Alive(s) /\ outbox[s] = <<>>
Waits(s)     == status[s] = "Waiting" /\ ~InStart(s)
Hopeless(Z)  ==
  \A z \in Z : Stillborn(z) \/ (Waits(z) /\ \E i \in DOMAIN deps[z] : deps[z][i].name \in Z)
Doomed(s)    == \E Z \in SUBSET Services : s \in Z /\ Hopeless(Z)

\* A call of start(), wherever it is in the stack: the lines before its index
\* have been recorded.
Fine(f) ==
  f.fn = "start" =>
    /\ ~MustStop(f.svc)
    /\ f.at # "tail" => status[f.svc] = "Waiting"
    /\ f.at = "tail" => status[f.svc] \in {"Waiting", "Starting"} /\ Complete(f.svc)
    /\ Has(f.svc, f.i)
    /\ f.at = "depended" => Has(f.svc, f.i + 1)

\* A call f made, at any depth, by start(): it is about a service further below,
\* until start() updates its own.
Over(f, b) ==
  b.fn = "start" =>
    /\ b.at # "tail" => Climbs(f, b.svc)
    /\ b.at = "tail" => f = Call("update", b.svc)

\* A call f made by b itself.
Linked(f, b) ==
  /\ b.fn = "start" /\ b.at = "depended" => f.svc = Depend[b.svc][b.i].name
  /\ b.fn \in {"start", "stop", "cascadeStop"} /\ b.at = "tail" =>
       f.svc = b.svc /\ f.fn \in {"update", "stop"}

CallInv ==
  /\ \A k \in DOMAIN stack : Fine(stack[k])
  /\ \A k \in DOMAIN stack : \A j \in 1..(k - 1) : Over(stack[j], stack[k])
  /\ \A k \in 2..Len(stack) : Linked(stack[k - 1], stack[k])

\* A service that waits has recorded every mandatory line, or will wait for ever.
WaitInv ==
  \A s \in Services :
    Waits(s) => Complete(s) \/ \E i \in DOMAIN deps[s] : Doomed(deps[s][i].name)

\* What an error that has just been returned means.
ErrorInv ==
  stack # <<>> /\ ret = "err" =>
    /\ Top.fn = "start" /\ Top.at = "depended" => Doomed(Depend[Top.svc][Top.i].name)
    /\ Top.fn \in {"start", "stop", "cascadeStop"} /\ Top.at = "tail" => Stillborn(Top.svc)

\* A service that is up has recorded every mandatory line; what announces that
\* it runs finds it Starting.
UpInv == \A s \in Services : Up(s) => Complete(s)
NewsInv ==
  \A s \in Services : stage[s] = "begin" \/ FinstartUnread(s) => status[s] = "Starting"

SuperInv == CallInv /\ WaitInv /\ ErrorInv /\ UpInv /\ NewsInv

\* At first nothing is up, and no call in progress.
LEMMA InitSuper == Init => SuperInv
<1> SUFFICES ASSUME Init PROVE SuperInv
  OBVIOUS
<1>1. CallInv /\ ErrorInv
  BY DEF Init, CallInv, ErrorInv
<1>2. WaitInv /\ UpInv
  BY DEF Init, WaitInv, Waits, UpInv, Up
<1>3. NewsInv
  BY DEF Init, LaunchInit, NewsInv, FinstartUnread
<1>4. QED
  BY <1>1, <1>2, <1>3 DEF SuperInv

-----------------------------------------------------------------------------
(* Stacks.                                                                 *)

\* Of the frames of a stack, of any two and of any two neighbours.
Orderly(r, F, R, Q) ==
  /\ \A k \in DOMAIN r : r[k] \in F
  /\ \A k \in DOMAIN r : \A j \in 1..(k - 1) : <<r[j], r[k]>> \in R
  /\ \A k \in 2..Len(r) : <<r[k - 1], r[k]>> \in Q

\* One more frame on top.
Fits(f, r, F, R, Q) ==
  /\ f \in F
  /\ \A k \in DOMAIN r : <<f, r[k]>> \in R
  /\ 1 \in DOMAIN r => <<f, r[1]>> \in Q

\* A stack with one more is as orderly as it was.
LEMMA StackPush ==
  ASSUME NEW U, NEW F, NEW R, NEW Q, NEW f \in U, NEW q \in Seq(U),
         Orderly(q, F, R, Q), Fits(f, q, F, R, Q)
  PROVE  /\ <<f>> \o q \in Seq(U)
         /\ Orderly(<<f>> \o q, F, R, Q)
<1> DEFINE p == <<f>> \o q
<1>1. /\ p \in Seq(U) /\ p[1] = f
      /\ Len(p) = Len(q) + 1 /\ DOMAIN p = 1..(Len(q) + 1) /\ Len(q) \in Nat
      /\ \A k \in 2..(Len(q) + 1) : k - 1 \in DOMAIN q /\ p[k] = q[k - 1]
  OBVIOUS
<1> HIDE DEF p
<1> USE DEF Orderly, Fits
<1>2. \A k \in DOMAIN p : k = 1 \/ k \in 2..(Len(q) + 1)
  BY <1>1
<1>3. \A k \in DOMAIN p : p[k] \in F
  BY <1>1, <1>2
<1>4. ASSUME NEW k \in DOMAIN p, NEW j \in 1..(k - 1) PROVE <<p[j], p[k]>> \in R
  <2>1. k \in 2..(Len(q) + 1)
    BY <1>1, <1>2
  <2>2. CASE j = 1
    BY <1>1, <2>1, <2>2
  <2>3. CASE j # 1
    <3>1. j \in 2..(Len(q) + 1) /\ j - 1 \in 1..((k - 1) - 1)
      BY <1>1, <2>1, <2>3
    <3>2. <<q[j - 1], q[k - 1]>> \in R /\ p[j] = q[j - 1] /\ p[k] = q[k - 1]
      BY <1>1, <2>1, <3>1
    <3>3. QED
      BY <3>2
  <2>4. QED
    BY <2>2, <2>3
<1>5. ASSUME NEW k \in 2..Len(p) PROVE <<p[k - 1], p[k]>> \in Q
  <2>1. CASE k = 2
    <3>1. 1 \in DOMAIN q /\ p[k] = q[1] /\ p[k - 1] = f
      BY <1>1, <2>1
    <3>2. QED
      BY <3>1
  <2>2. CASE k # 2
    <3>1. k - 1 \in 2..(Len(q) + 1) /\ k - 1 \in 2..Len(q) /\ k \in 2..(Len(q) + 1)
      BY <1>1, <2>2
    <3>2. QED
      BY <1>1, <3>1
  <2>3. QED
    BY <2>1, <2>2
<1>6. QED
  BY <1>1, <1>3, <1>4, <1>5 DEF p

\* The running call goes on, calls another or returns: what has to be shown of
\* the frames that are new and of those that wait.
CallStays ==
  /\ \A f \in Held : Fine(f)'
  /\ \A f \in Held : \A b \in Held : Over(f, b) => Over(f, b)'
Below1(f) == 2 \in DOMAIN stack => Linked(f, stack[2])
Enters(f) == Fine(f)' /\ \A b \in Held : Over(f, b)'

\* If so, what is claimed of all of the stack stays.
LEMMA StackFine ==
  ASSUME CallTypes, CallTypes', CallInv, stack # <<>>, CallStays,
         \/ \E v : ReturnWith(v)
         \/ \E f : Continue(f) /\ Enters(f) /\ Below1(f)
         \/ \E f, g : /\ Invoke(f, g) /\ Enters(f) /\ Enters(g) /\ Over(g, f)'
                      /\ Below1(f) /\ Linked(g, f)
  PROVE  CallInv'
<1> DEFINE U == GoodFrame
           F == {f \in U : Fine(f)'}
           R == {p \in U \X U : Over(p[1], p[2])'}
           Q == {p \in U \X U : Linked(p[1], p[2])}
<1>1. PICK r \in Seq(U) : r = Tail(stack)
  <2>1. stack \in Seq(U) /\ stack # <<>>
    BY DEF CallTypes
  <2>2. Tail(stack) \in Seq(U)
    BY <2>1
  <2>3. QED
    BY <2>2
<1>2. /\ Len(r) \in Nat /\ DOMAIN r = 1..Len(r) /\ Len(stack) = Len(r) + 1
      /\ DOMAIN stack = 1..Len(stack)
      /\ \A k \in 1..Len(r) : /\ k + 1 \in 2..Len(stack) /\ k + 1 \in DOMAIN stack
                              /\ r[k] = stack[k + 1] /\ r[k] \in U
  BY <1>1 DEF CallTypes
<1>3. \A k \in DOMAIN r : r[k] \in Held
  BY <1>2 DEF Held
<1>4. Orderly(r, F, R, Q)
  <2>1. \A k \in DOMAIN r : r[k] \in F
    BY <1>2, <1>3 DEF CallStays
  <2>2. ASSUME NEW k \in DOMAIN r, NEW j \in 1..(k - 1) PROVE <<r[j], r[k]>> \in R
    <3>1. /\ k + 1 \in DOMAIN stack /\ j + 1 \in 1..((k + 1) - 1)
          /\ j \in DOMAIN r /\ r[k] = stack[k + 1] /\ r[j] = stack[j + 1]
      BY <1>2
    <3>2. Over(stack[j + 1], stack[k + 1])
      BY <3>1 DEF CallInv
    <3>3. Over(r[j], r[k])'
      BY <1>3, <3>1, <3>2 DEF CallStays
    <3>4. QED
      BY <1>2, <3>1, <3>3
  <2>3. ASSUME NEW k \in 2..Len(r) PROVE <<r[k - 1], r[k]>> \in Q
    <3>1. /\ k + 1 \in 2..Len(stack) /\ k \in DOMAIN r /\ k - 1 \in DOMAIN r
          /\ r[k] = stack[k + 1] /\ r[k - 1] = stack[k] /\ (k + 1) - 1 = k
      <4>1. k \in 1..Len(r) /\ k - 1 \in 1..Len(r) /\ (k - 1) + 1 = k /\ (k + 1) - 1 = k
        BY <1>2
      <4>2. QED
        BY <1>2, <4>1
    <3>2. Linked(r[k - 1], r[k])
      <4>1. Linked(stack[(k + 1) - 1], stack[k + 1])
        BY <3>1 DEF CallInv
      <4>2. QED
        BY <3>1, <4>1
    <3>3. QED
      BY <1>2, <3>1, <3>2
  <2>4. QED
    BY <2>1, <2>2, <2>3 DEF Orderly
<1>5. ASSUME NEW f \in U, Enters(f), Below1(f) PROVE Fits(f, r, F, R, Q)
  <2>1. \A k \in DOMAIN r : <<f, r[k]>> \in R
    BY <1>2, <1>3, <1>5 DEF Enters
  <2>2. 1 \in DOMAIN r => <<f, r[1]>> \in Q
    BY <1>2, <1>5 DEF Below1
  <2>3. QED
    BY <1>5, <2>1, <2>2 DEF Fits, Enters
<1>6. PICK t : t = stack'
  OBVIOUS
<1>7. t \in Seq(U)
  BY <1>6 DEF CallTypes
<1>8. Orderly(t, F, R, Q)
  <2>1. CASE \E v : ReturnWith(v)
    BY <1>1, <1>4, <1>6, <2>1 DEF ReturnWith
  <2>2. ASSUME NEW f, Continue(f), Enters(f), Below1(f) PROVE Orderly(t, F, R, Q)
    <3>1. t = <<f>> \o r
      BY <1>1, <1>6, <2>2 DEF Continue
    <3>2. f \in U
      <4>1. t[1] = f /\ 1 \in DOMAIN t
        BY <1>1, <3>1
      <4>2. QED
        BY <1>7, <4>1
    <3>3. Fits(f, r, F, R, Q)
      BY <1>5, <2>2, <3>2
    <3> HIDE DEF U, F, R, Q
    <3>4. QED
      BY <1>1, <1>4, <3>1, <3>2, <3>3, StackPush
  <2>3. ASSUME NEW f, NEW g, Invoke(f, g), Enters(f), Enters(g), Over(g, f)', Below1(f),
               Linked(g, f)
        PROVE  Orderly(t, F, R, Q)
    <3> DEFINE p == <<f>> \o r
    <3>1. t = <<g, f>> \o r
      BY <1>1, <1>6, <2>3 DEF Invoke
    <3>2. f \in U /\ g \in U
      <4>1. t[1] = g /\ t[2] = f /\ 1 \in DOMAIN t /\ 2 \in DOMAIN t
        BY <1>1, <3>1
      <4>2. QED
        BY <1>7, <4>1
    <3>3. Fits(f, r, F, R, Q)
      BY <1>5, <2>3, <3>2
    <3>4. t = <<g>> \o p
      BY <1>1, <3>1, <3>2
    <3>5. /\ DOMAIN p = 1..(Len(r) + 1) /\ p[1] = f
          /\ \A k \in 2..(Len(r) + 1) : k - 1 \in DOMAIN r /\ p[k] = r[k - 1]
      BY <1>1, <3>2
    <3>6. Fits(g, p, F, R, Q)
      <4>1. ASSUME NEW k \in DOMAIN p PROVE <<g, p[k]>> \in R
        <5>1. k = 1 \/ k \in 2..(Len(r) + 1)
          BY <1>2, <3>5
        <5>2. CASE k = 1
          BY <2>3, <3>2, <3>5, <5>2
        <5>3. CASE k \in 2..(Len(r) + 1)
          <6>1. p[k] \in Held /\ p[k] \in U
            BY <1>2, <1>3, <3>5, <5>3
          <6>2. QED
            BY <2>3, <3>2, <6>1 DEF Enters
        <5>4. QED
          BY <5>1, <5>2, <5>3
      <4>2. g \in F /\ <<g, p[1]>> \in Q
        BY <2>3, <3>2, <3>5 DEF Enters
      <4>3. QED
        BY <4>1, <4>2 DEF Fits
    <3>7. p \in Seq(U) /\ Orderly(p, F, R, Q)
      <4> HIDE DEF U, F, R, Q
      <4>1. QED
        BY <1>1, <1>4, <3>2, <3>3, StackPush
    <3> HIDE DEF U, F, R, Q, p
    <3>8. QED
      BY <3>2, <3>4, <3>6, <3>7, StackPush
  <2>4. QED
    BY <2>1, <2>2, <2>3
<1>9. /\ \A k \in DOMAIN t : Fine(t[k])'
      /\ \A k \in DOMAIN t : \A j \in 1..(k - 1) : Over(t[j], t[k])'
      /\ \A k \in 2..Len(t) : Linked(t[k - 1], t[k])
  BY <1>8 DEF Orderly
<1>10. /\ \A k \in DOMAIN stack' : Fine(t[k])'
       /\ \A k \in DOMAIN stack' : \A j \in 1..(k - 1) : Over(t[j], t[k])'
       /\ \A k \in 2..Len(stack') : Linked(t[k - 1], t[k])
  BY <1>6, <1>9
<1>11. (\A k \in DOMAIN stack : Fine(stack[k]))'
  BY <1>6, <1>10 DEF Fine
<1>12. (\A k \in DOMAIN stack : \A j \in 1..(k - 1) : Over(stack[j], stack[k]))'
  BY <1>6, <1>10 DEF Over, Climbs
<1>13. (\A k \in 2..Len(stack) : Linked(stack[k - 1], stack[k]))'
  BY <1>6, <1>10 DEF Linked
<1>14. QED
  BY <1>11, <1>12, <1>13 DEF CallInv

-----------------------------------------------------------------------------
(* The running call.                                                       *)

\* What the stack says of the running call, and who is in start().
LEMMA TopFine ==
  ASSUME CallTypes, CallInv, stack # <<>>
  PROVE  /\ Fine(Top)
         /\ \A b \in Held : Fine(b) /\ Over(Top, b)
         /\ Below1(Top)
         /\ \A s : InStart(s) <=> \E f \in Held \union {Top} : f.fn = "start" /\ f.svc = s
         /\ Top.fn = "start" => \A b \in Held : b.fn = "start" => b.at # "tail"
<1>1. /\ Len(stack) \in Nat /\ Len(stack) >= 1 /\ DOMAIN stack = 1..Len(stack) /\ Top = stack[1]
  BY DEF CallTypes, Top
<1>2. /\ \A k \in 2..Len(stack) : k \in DOMAIN stack /\ 1 \in 1..(k - 1)
      /\ \A k \in DOMAIN stack : k = 1 \/ k \in 2..Len(stack)
      /\ 1 \in DOMAIN stack
  BY <1>1
<1>3. Fine(Top)
  BY <1>1, <1>2 DEF CallInv
<1>4. \A b \in Held : Fine(b) /\ Over(Top, b)
  BY <1>1, <1>2 DEF CallInv, Held
<1>5. Below1(Top)
  <2>1. ASSUME 2 \in DOMAIN stack PROVE Linked(Top, stack[2])
    <3>1. 2 \in 2..Len(stack) /\ 2 - 1 = 1
      BY <1>1, <2>1
    <3>2. Linked(stack[2 - 1], stack[2])
      BY <3>1 DEF CallInv
    <3>3. QED
      BY <1>1, <3>1, <3>2
  <2>2. QED
    BY <2>1 DEF Below1
<1>6. \A s : InStart(s) <=> \E f \in Held \union {Top} : f.fn = "start" /\ f.svc = s
  BY <1>1, <1>2 DEF InStart, Held
<1>7. Top.fn = "start" => \A b \in Held : b.fn = "start" => b.at # "tail"
  BY <1>4 DEF Over, Call
<1>8. QED
  BY <1>3, <1>4, <1>5, <1>6, <1>7

\* A service that is being started by a call that waits is the running call's only
\* if that is the update() which start() ends with.
LEMMA OthersStart ==
  ASSUME Acyclic, CallTypes, CallInv, stack # <<>>, NEW b \in Held, b.fn = "start",
         NEW s \in Services, Top \notin TargetFrame \union CommandFrame, Top.svc = s
  PROVE  b.svc = s => b.at = "tail" /\ Top = Call("update", s)
<1>1. SUFFICES ASSUME b.svc = s, b.at # "tail" PROVE FALSE
  BY TopFine DEF Over
<1>2. Level[s] < Level[s]
  BY <1>1, TopFine DEF Over, Climbs
<1>3. Level[s] \in Nat
  BY DEF Acyclic, Level, Layered
<1>4. QED
  BY <1>2, <1>3

\* What a step of the running call does to the statuses and to deps: something
\* only to its own service, and never to a mandatory edge of one that is not down.
LEMMA RunChanges ==
  ASSUME TypeInv, FrameInv, Run
  PROVE  /\ stack # <<>> /\ tgts' = tgts
         /\ \A s \in Services :
              \/ status'[s] = status[s] /\ deps'[s] = deps[s]
              \/ Top.svc = s /\ Update(s) /\ ~UpdateIsIdle(s)
              \/ /\ Top.svc = s /\ Top.fn = "start" /\ Top.at # "tail" /\ status' = status
                 /\ UNCHANGED <<stage, outbox>>
                 /\ \A e \in Edge : ~e.optional /\ Recorded(s, e) => Recorded(s, e)'
              \/ Top.svc = s /\ Top.fn = "finishStop" /\ status' = status /\ Excluded(s)
<1> USE DEF TypeInv, DataTypes
<1>1. stack # <<>> /\ tgts' = tgts
  BY DEF Run, ServiceStep, Update, RawStart, RawStartFails, RawStop, BeginStart,
         BeginStop, UpdateIsIdle, CommandReturns, TargetNext, TargetEnds, StartDepends,
         StartDepended, StartTriesAfter, StartTriedAfter, StartAddedAfter, UpdateSelf,
         ReturnFromTail, StopNext, CascadeEnters, CascadeNext, FinishStartNext,
         FinishStartFails, FinishStartEnds, FinishStopNext, FinishStopEnds, Runs,
         targetVars, CheckReach
<1>2. CASE UNCHANGED <<status, deps>>
  BY <1>1, <1>2
<1>3. ASSUME NEW s \in Services, Update(s), ~UNCHANGED <<status, deps>>
      PROVE  /\ Top.svc = s /\ ~UpdateIsIdle(s)
             /\ \A r \in Services \ {s} : status'[r] = status[r] /\ deps'[r] = deps[r]
  <2>1. Top.svc = s
    BY <1>3 DEF Update, Runs
  <2>2. ~UpdateIsIdle(s)
    BY <1>3 DEF UpdateIsIdle, serviceVars, edgeVars
  <2>3. \A r \in Services \ {s} : status'[r] = status[r] /\ deps'[r] = deps[r]
    BY <1>3, <2>2 DEF Update, RawStart, RawStartFails, RawStop, BeginStart, BeginStop, SetStatus,
                      edgeVars
  <2>4. QED
    BY <2>1, <2>2, <2>3
<1>4. ASSUME NEW s \in Services,
             \/ StartDepends(s) \/ StartDepended(s)
             \/ StartTriesAfter(s) \/ StartTriedAfter(s) \/ StartAddedAfter(s)
      PROVE  /\ Top.svc = s /\ Top.fn = "start" /\ Top.at # "tail" /\ status' = status
             /\ UNCHANGED <<stage, outbox>>
             /\ \A r \in Services \ {s} : deps'[r] = deps[r]
             /\ \A e \in Edge : ~e.optional /\ Recorded(s, e) => Recorded(s, e)'
  <2>1. /\ Top.svc = s /\ Top.fn = "start" /\ Top.at # "tail" /\ status' = status
        /\ UNCHANGED <<stage, outbox>>
    BY <1>4 DEF StartDepends, StartDepended, StartTriesAfter, StartTriedAfter,
                StartAddedAfter, Runs, serviceVars, launchVars
  <2>2. \/ deps' = deps
        \/ \E e : deps' = [deps EXCEPT ![s] = Append(@, e)]
        \/ \E d : deps' = [deps EXCEPT ![s] = RemoveFirst(@, [name |-> d, optional |-> TRUE])]
    BY <1>4 DEF StartDepends, StartDepended, StartTriesAfter, StartTriedAfter,
                StartAddedAfter, AddEdge, DropEdge, edgeVars
  <2>3. \A r \in Services \ {s} : deps'[r] = deps[r]
    BY <2>2
  <2>4. deps[s] \in Seq(Edge)
    OBVIOUS
  <2>5. ASSUME NEW e \in Edge, ~e.optional, Recorded(s, e) PROVE Recorded(s, e)'
    <3>1. PICK i \in DOMAIN deps[s] : deps[s][i] = e
      BY <2>5 DEF Recorded
    <3>2. ASSUME NEW g, deps' = [deps EXCEPT ![s] = Append(@, g)] PROVE Recorded(s, e)'
      <4>1. deps'[s] = Append(deps[s], g)
        BY <3>2
      <4>2. i \in DOMAIN Append(deps[s], g) /\ Append(deps[s], g)[i] = e
        BY <2>4, <3>1
      <4>3. QED
        BY <4>1, <4>2 DEF Recorded
    <3>3. ASSUME NEW d, deps' = [deps EXCEPT ![s] = RemoveFirst(@, [name |-> d, optional |-> TRUE])]
          PROVE  Recorded(s, e)'
      <4> DEFINE x == [name |-> d, optional |-> TRUE]
                 q == RemoveFirst(deps[s], x)
      <4>1. deps'[s] = q
        BY <3>3
      <4>2. q \in Seq(Edge)
        BY <2>4, RemoveFirstIsSeq
      <4>3. x \notin {e}
        BY <2>5
      <4>4. Count(q, {e}) = Count(deps[s], {e})
        BY <2>4, <4>3, CountKept
      <4>5. Count(deps[s], {e}) # 0
        BY <2>4, <3>1, CountIsNat
      <4> HIDE DEF q
      <4>6. \E j \in DOMAIN q : q[j] \in {e}
        BY <4>2, <4>4, <4>5, CountIsNat
      <4>7. QED
        BY <4>1, <4>6 DEF Recorded
    <3>4. deps' = deps => Recorded(s, e)'
      BY <2>5 DEF Recorded
    <3>5. QED
      BY <2>2, <3>2, <3>3, <3>4
  <2>6. QED
    BY <2>1, <2>3, <2>5
<1>5. ASSUME NEW s \in Services, FinishStopNext(s) \/ FinishStopEnds(s)
      PROVE  /\ Top.svc = s /\ Top.fn = "finishStop" /\ status' = status /\ Excluded(s)
             /\ \A r \in Services \ {s} : deps'[r] = deps[r]
  <2>1. Top.svc = s /\ Top.fn = "finishStop" /\ status' = status
    BY <1>5 DEF FinishStopNext, FinishStopEnds, Runs, serviceVars
  <2>2. Excluded(s)
    BY <1>1, <2>1, Frames DEF Alone
  <2>3. \A r \in Services \ {s} : deps'[r] = deps[r]
    BY <1>5 DEF FinishStopNext, FinishStopEnds
  <2>4. QED
    BY <2>1, <2>2, <2>3
<1>6. \/ UNCHANGED <<status, deps>>
      \/ \E s \in Services :
           \/ Update(s) \/ FinishStopNext(s) \/ FinishStopEnds(s)
           \/ StartDepends(s) \/ StartDepended(s)
           \/ StartTriesAfter(s) \/ StartTriedAfter(s) \/ StartAddedAfter(s)
  BY DEF Run, ServiceStep, CommandReturns, TargetNext, TargetEnds, UpdateSelf,
         ReturnFromTail, StopNext, CascadeEnters, CascadeNext, FinishStartNext,
         FinishStartFails, FinishStartEnds, serviceVars, edgeVars
<1>7. ASSUME NEW s \in Services, Update(s), ~UNCHANGED <<status, deps>>, NEW r \in Services
      PROVE  \/ status'[r] = status[r] /\ deps'[r] = deps[r]
             \/ Top.svc = r /\ Update(r) /\ ~UpdateIsIdle(r)
  BY <1>3, <1>7
<1>8. ASSUME NEW s \in Services, NEW r \in Services,
             \/ StartDepends(s) \/ StartDepended(s)
             \/ StartTriesAfter(s) \/ StartTriedAfter(s) \/ StartAddedAfter(s)
      PROVE  \/ status'[r] = status[r] /\ deps'[r] = deps[r]
             \/ /\ Top.svc = r /\ Top.fn = "start" /\ Top.at # "tail" /\ status' = status
                /\ UNCHANGED <<stage, outbox>>
                /\ \A e \in Edge : ~e.optional /\ Recorded(r, e) => Recorded(r, e)'
  BY <1>4, <1>8
<1>9. ASSUME NEW s \in Services, NEW r \in Services, FinishStopNext(s) \/ FinishStopEnds(s)
      PROVE  \/ status'[r] = status[r] /\ deps'[r] = deps[r]
             \/ Top.svc = r /\ Top.fn = "finishStop" /\ status' = status /\ Excluded(r)
  BY <1>5, <1>9
<1>10. QED
  BY <1>1, <1>2, <1>6, <1>7, <1>8, <1>9

\* update() of a service that waits or starts does nothing but raw_start.
LEMMA UpdateStarts ==
  ASSUME TypeInv, NEW s \in Services, Update(s), status[s] \in {"Waiting", "Starting"},
         ~UpdateIsIdle(s)
  PROVE  /\ ReadyToStart(s) /\ status' = [status EXCEPT ![s] = "Starting"]
         /\ UNCHANGED edgeVars
<1>1. ReadyToStart(s) /\ (RawStart(s) \/ RawStartFails(s))
  BY DEF Update, ReadyToStop, WantsStart, WantsStop, Excluded, Included
<1>2. QED
  BY <1>1 DEF RawStart, RawStartFails, SetStatus

\* The calls that wait stay what they are.
LEMMA RunStays ==
  ASSUME Acyclic, IgnoreClosed, TypeInv, FrameInv, CallInv, Run
  PROVE  CallStays
<1>1. stack # <<>> /\ tgts' = tgts /\ CallTypes
  BY RunChanges DEF TypeInv
<1>2. \A s : MustStop(s)' = MustStop(s)
  BY <1>1 DEF MustStop, IsShutdown, HasAttribute
<1>3. Held \subseteq GoodFrame /\ Top \in GoodFrame
  BY <1>1, Frames
<1>4. ASSUME NEW f \in Held PROVE Fine(f)'
  <2>1. SUFFICES ASSUME f.fn = "start" PROVE Fine(f)'
    BY DEF Fine
  <2> DEFINE s == f.svc
  <2>2. f \in GoodServiceFrame /\ s \in Services
    BY <1>3, <2>1 DEF GoodFrame, GoodServiceFrame, ServiceFrame, TargetFrame, CommandFrame
  <2>3. Fine(f) /\ Over(Top, f)
    BY <1>1, TopFine
  <2>4. status[s] \in {"Waiting", "Starting"}
    BY <2>1, <2>3 DEF Fine
  <2>5. CASE status'[s] = status[s] /\ deps'[s] = deps[s]
    BY <1>2, <2>1, <2>3, <2>5 DEF Fine, Has, Complete, Recorded
  <2>6. CASE Top.svc = s /\ Update(s) /\ ~UpdateIsIdle(s)
    <3>1. status' = [status EXCEPT ![s] = "Starting"] /\ deps' = deps
      BY <2>2, <2>4, <2>6, UpdateStarts DEF edgeVars
    <3>2. f.at = "tail"
      <4>1. Top.fn = "update"
        BY <2>6 DEF Update, Runs
      <4>2. Top \notin TargetFrame \union CommandFrame
        BY <4>1 DEF TargetFrame, CommandFrame
      <4>3. QED
        BY <1>1, <2>1, <2>2, <2>6, <4>2, OthersStart
    <3>3. status'[s] = "Starting"
      BY <2>2, <3>1 DEF TypeInv, DataTypes
    <3>4. QED
      BY <1>2, <2>1, <2>3, <3>1, <3>2, <3>3 DEF Fine, Has, Complete, Recorded
  <2>7. CASE Top.svc = s /\ Top.fn = "start" /\ Top.at # "tail"
    <3>1. Top \notin TargetFrame \union CommandFrame
      BY <2>7 DEF TargetFrame, CommandFrame
    <3>2. Top = Call("update", s)
      BY <1>1, <2>1, <2>2, <2>7, <3>1, OthersStart
    <3>3. QED
      BY <2>7, <3>2 DEF Call
  <2>8. ~Excluded(s)
    BY <2>4 DEF Excluded
  <2>9. QED
    BY <2>2, <2>5, <2>6, <2>7, <2>8, RunChanges
<1>5. ASSUME NEW f \in Held, NEW b \in Held, Over(f, b) PROVE Over(f, b)'
  <2>1. SUFFICES ASSUME b.fn = "start", b.at # "tail" PROVE Climbs(f, b.svc)'
    BY <1>5 DEF Over
  <2>2. Climbs(f, b.svc)
    BY <1>5, <2>1 DEF Over
  <2>3. f.svc \in Services
    BY <1>3, <2>2, ServiceOf DEF Climbs
  <2>4. f.fn = "stop" => dependedBy'[f.svc] = dependedBy[f.svc]
    BY <1>1, <2>3, Walks, WalkedStay DEF Walking
  <2>5. QED
    BY <1>2, <2>2, <2>4 DEF Climbs
<1>6. QED
  BY <1>4, <1>5 DEF CallStays

\* What has to be shown of a step of the running call.
LEMMA RunFine ==
  ASSUME Acyclic, IgnoreClosed, TypeInv, TypeInv', FrameInv, CallInv, Run,
         \/ \E v : ReturnWith(v)
         \/ \E f : Continue(f) /\ Enters(f) /\ Below1(f)
         \/ \E f, g : /\ Invoke(f, g) /\ Enters(f) /\ Enters(g) /\ Over(g, f)'
                      /\ Below1(f) /\ Linked(g, f)
  PROVE  CallInv'
<1>1. stack # <<>> /\ CallStays
  BY RunChanges, RunStays
<1>2. QED
  BY <1>1, StackFine DEF TypeInv

-----------------------------------------------------------------------------
(* The stack.                                                              *)

\* The steps of start() itself.
LEMMA StartFine ==
  ASSUME Acyclic, IgnoreClosed, AllInstalled, TypeInv, TypeInv', FrameInv, CallInv,
         NEW s \in Services,
         \/ StartDepends(s) \/ StartDepended(s)
         \/ StartTriesAfter(s) \/ StartTriedAfter(s) \/ StartAddedAfter(s)
  PROVE  CallInv'
<1>1. Run /\ stack # <<>> /\ CallTypes
  BY DEF Run, ServiceStep, StartDepends, StartDepended, StartTriesAfter,
         StartTriedAfter, StartAddedAfter, Runs, TypeInv
<1>2. /\ Top.fn = "start" /\ Top.svc = s /\ Top.at # "tail"
      /\ UNCHANGED <<status, tgts>>
  BY DEF StartDepends, StartDepended, StartTriesAfter, StartTriedAfter, StartAddedAfter,
         Runs, serviceVars, targetVars
<1>3. Top \in GoodServiceFrame
  BY <1>1, <1>2, Frames DEF GoodFrame, TargetFrame, CommandFrame
<1>4. /\ ~MustStop(s) /\ ~MustStop(s)'
      /\ status[s] = "Waiting" /\ status'[s] = "Waiting" /\ Has(s, Top.i)
      /\ Top.at = "depended" => Has(s, Top.i + 1)
  <2>1. Fine(Top)
    BY <1>1, TopFine
  <2>2. MustStop(s)' = MustStop(s)
    BY <1>2 DEF MustStop, IsShutdown, HasAttribute
  <2>3. QED
    BY <1>2, <2>1, <2>2 DEF Fine
<1>5. \A e \in Edge : ~e.optional /\ Recorded(s, e) => Recorded(s, e)'
  <2>1. ~\E v : v \in Services /\ Update(v)
    BY <1>2 DEF Update, Runs
  <2>2. QED
    BY <1>1, <1>2, <2>1, RunChanges DEF Recorded
<1>6. \A n : Has(s, n) => Has(s, n)'
  <2>1. \A j \in DOMAIN Depend[s] : Depend[s][j] \in Edge
    BY ServiceAssumption
  <2>2. QED
    BY <1>5, <2>1 DEF Has
<1>7. Level[s] \in Nat
  BY DEF Acyclic, Level, Layered
<1>8. ASSUME NEW f, f.fn = "start", f.svc = s PROVE Below1(f) /\ \A b \in Held : Over(f, b)'
  <2>1. Below1(f)
    <3>1. Below1(Top)
      BY <1>1, TopFine
    <3>2. QED
      BY <1>2, <1>8, <3>1 DEF Below1, Linked
  <2>2. ASSUME NEW b \in Held, b.fn = "start" PROVE b.at # "tail" /\ Climbs(f, b.svc)'
    <3>1. Over(Top, b) /\ b.at # "tail"
      BY <1>1, <1>2, <2>2, TopFine
    <3>2. Climbs(Top, b.svc)
      BY <2>2, <3>1 DEF Over
    <3>3. QED
      BY <1>2, <1>4, <1>8, <3>1, <3>2 DEF Climbs
  <2>3. QED
    BY <2>1, <2>2 DEF Over
<1>9. ASSUME NEW d \in Below(s)
      PROVE  /\ Enters(Call("update", d))
             /\ \A f : f.fn = "start" /\ f.svc = s /\ f.at # "tail" => Over(Call("update", d), f)'
  <2> DEFINE g == Call("update", d)
  <2>1. g.fn = "update" /\ g.svc = d
    BY DEF Call
  <2>2. /\ d \in Services /\ Level[d] \in Nat /\ Level[d] < Level[s]
        /\ ~MustStop(d)
    BY <1>4, BelowIs
  <2>3. ~MustStop(d)'
    BY <1>2, <2>2 DEF MustStop, IsShutdown, HasAttribute
  <2>4. Climbs(g, s)'
    BY <2>1, <2>2, <2>3 DEF Climbs
  <2>5. ASSUME NEW b \in Held, b.fn = "start" PROVE b.at # "tail" /\ Climbs(g, b.svc)'
    <3>1. b.at # "tail" /\ Level[s] < Level[b.svc] /\ b.svc \in Services
      <4>1. Over(Top, b) /\ b.at # "tail" /\ b \in GoodFrame
        BY <1>1, <1>2, <2>5, Frames, TopFine
      <4>2. QED
        BY <1>2, <2>5, <4>1, ServiceOf DEF Over, Climbs
    <3>2. Level[b.svc] \in Nat
      BY <3>1 DEF Acyclic, Level, Layered
    <3>3. Level[d] < Level[b.svc]
      BY <1>7, <2>2, <3>1, <3>2
    <3>4. QED
      BY <2>1, <2>3, <3>1, <3>3 DEF Climbs
  <2>6. Fine(g)'
    BY <2>1 DEF Fine
  <2>7. QED
    BY <2>4, <2>5, <2>6 DEF Enters, Over
<1>10. ASSUME NEW f, f.fn = "start", f.svc = s, f.at # "tail",
              Has(s, f.i)', f.at = "depended" => Has(s, f.i + 1)'
       PROVE  Enters(f)
  <2>1. Fine(f)'
    BY <1>4, <1>10 DEF Fine
  <2>2. QED
    BY <1>8, <1>10, <2>1 DEF Enters
<1>11. PICK i, next, at :
         /\ i = Top.i /\ next = Next1 /\ at = [l \in {"depended", "tried", "after"} |-> At(l)]
  OBVIOUS
<1>12. /\ next.fn = "start" /\ next.svc = s /\ next.at = "next" /\ next.i = i + 1
       /\ \A l \in {"depended", "tried", "after"} :
            at[l] = At(l) /\ at[l].fn = "start" /\ at[l].svc = s /\ at[l].at = l /\ at[l].i = i
  BY <1>2, <1>3, <1>11 DEF Next1, At, GoodServiceFrame, ServiceFrame
<1>13. /\ Len(Depend[s]) \in Nat /\ DOMAIN Depend[s] = 1..Len(Depend[s]) /\ i \in Nat \ {0}
       /\ Depend[s] \in Seq(Edge)
  BY <1>3, <1>11, ServiceAssumption DEF GoodServiceFrame, ServiceFrame
<1>14. \A n \in Nat : n >= 1 /\ Has(s, n)' /\ (n \in DOMAIN Depend[s] /\ ~Depend[s][n].optional =>
                          Recorded(s, Depend[s][n])') => Has(s, n + 1)'
  BY <1>13 DEF Has
<1>15. CASE StartDepends(s)
  <2>0. PICK d : d = DependAt(s)
    OBVIOUS
  <2>1. AtDepend(s) /\ i \in DOMAIN Depend[s] /\ d = Depend[s][i] /\ d \in Edge
    BY <1>11, <1>13, <1>15, <2>0 DEF StartDepends, AtDepend, DependAt
  <2>2. d.name \in Below(s)
    BY <1>2, <1>3, <2>0, <2>1, LinesAreBelow
  <2>3. CASE AddEdge(s, d.name, d.optional) /\ Invoke(at["depended"], Call("update", d.name))
    <3>1. Recorded(s, d)'
      <4>1. d = [name |-> d.name, optional |-> d.optional]
        BY <2>1 DEF Edge
      <4>2. deps'[s] = Append(deps[s], d) /\ deps[s] \in Seq(Edge)
        BY <2>3, <4>1 DEF AddEdge, TypeInv, DataTypes
      <4>3. Len(deps[s]) + 1 \in DOMAIN Append(deps[s], d)
            /\ Append(deps[s], d)[Len(deps[s]) + 1] = d
        BY <4>2
      <4>4. QED
        BY <4>2, <4>3 DEF Recorded
    <3>2. Has(s, i + 1)'
      <4>1. Has(s, i)'
        BY <1>4, <1>6, <1>11
      <4>2. QED
        BY <1>13, <1>14, <2>1, <3>1, <4>1
    <3>3. Enters(at["depended"]) /\ Below1(at["depended"])
      <4>1. Has(s, i)'
        BY <1>4, <1>6, <1>11
      <4>2. PICK f : f = at["depended"]
        OBVIOUS
      <4>3. f.fn = "start" /\ f.svc = s /\ f.at = "depended" /\ f.i = i
        BY <1>12, <4>2
      <4>4. Enters(f)
        BY <1>10, <3>2, <4>1, <4>3
      <4>5. QED
        BY <1>8, <4>2, <4>3, <4>4
    <3>4. Linked(Call("update", d.name), at["depended"])
      BY <1>12, <2>1 DEF Linked, Call
    <3>5. /\ Enters(Call("update", d.name))
          /\ Over(Call("update", d.name), at["depended"])'
      BY <1>9, <1>12, <2>2
    <3>6. QED
      BY <1>1, <2>3, <3>3, <3>4, <3>5, RunFine
  <2>4. CASE d.name \notin Known /\ d.optional /\ Continue(next)
    <3>1. Has(s, i + 1)'
      BY <1>4, <1>6, <1>11, <1>13, <1>14, <2>1, <2>4
    <3>2. Enters(next) /\ Below1(next)
      BY <1>8, <1>10, <1>12, <3>1
    <3>3. QED
      BY <1>1, <2>4, <3>2, RunFine
  <2>5. CASE d.name \notin Known /\ ~d.optional
    <3>1. d.name \in Required(s)
      BY <2>1, <2>5 DEF Required
    <3>2. QED
      BY <2>5, <3>1 DEF AllInstalled
  <2>6. QED
    BY <1>15, <1>11, <1>12, <2>0, <2>3, <2>4, <2>5 DEF StartDepends
<1>16. CASE StartDepended(s)
  <2>1. Has(s, i + 1)'
    BY <1>4, <1>6, <1>11, <1>16 DEF StartDepended, Runs
  <2>2. Enters(next) /\ Below1(next)
    BY <1>8, <1>10, <1>12, <2>1
  <2>3. Continue(next) \/ ReturnWith("err")
    BY <1>11, <1>16 DEF StartDepended
  <2>4. QED
    BY <1>1, <2>2, <2>3, RunFine
<1>17. CASE StartTriesAfter(s) \/ StartTriedAfter(s) \/ StartAddedAfter(s)
  <2>1. Top.at \in {"tried", "after"} \/ AtAfter(s)
    BY <1>17 DEF StartTriesAfter, StartTriedAfter, StartAddedAfter, Runs
  <2>2. PICK a \in Below(s) : a = AfterAt(s)
    BY <1>2, <1>3, <2>1, LinesAreBelow
  <2>3. i \notin DOMAIN Depend[s]
    <3>1. i \in Len(Depend[s]) + 1 .. Len(Depend[s]) + Len(After[s])
      BY <1>2, <1>3, <1>11, <2>1 DEF AtAfter, GoodServiceFrame
    <3>2. Len(After[s]) \in Nat
      BY ServiceAssumption
    <3>3. QED
      BY <1>13, <3>1, <3>2
  <2>4. Has(s, i)' /\ Has(s, i + 1)'
    BY <1>4, <1>6, <1>11, <1>13, <1>14, <2>3
  <2>5. /\ Enters(next) /\ Below1(next)
        /\ \A l \in {"tried", "after"} : Enters(at[l]) /\ Below1(at[l])
    BY <1>8, <1>10, <1>12, <2>4
  <2>6. /\ Enters(Call("update", a))
        /\ \A l \in {"tried", "after"} : Over(Call("update", a), at[l])'
    BY <1>9, <1>12, <2>2
  <2>7. \A l \in {"tried", "after"} : Linked(Call("update", a), at[l])
    BY <1>12 DEF Linked
  <2>8. \/ Continue(next)
        \/ \E l \in {"tried", "after"} : Invoke(at[l], Call("update", a))
    BY <1>11, <1>17, <1>12, <2>2 DEF StartTriesAfter, StartTriedAfter, StartAddedAfter
  <2>9. QED
    BY <1>1, <2>5, <2>6, <2>7, <2>8, RunFine
<1>18. QED
  BY <1>15, <1>16, <1>17

\* The call it was, further on.
LEMMA SameBelow ==
  ASSUME CallTypes, CallInv, stack # <<>>, NEW f, f.fn = Top.fn, f.svc = Top.svc
  PROVE  Below1(f)
<1>1. Below1(Top)
  BY TopFine
<1>2. QED
  BY <1>1 DEF Below1, Linked

\* Where no start() waits, any other call may be made.
LEMMA NotStart ==
  ASSUME \A b \in Held : b.fn # "start", NEW f, f.fn # "start"
  PROVE  Enters(f)
  BY DEF Enters, Fine, Over

\* update() begins start() or stop(), or is done.
LEMMA UpdateFine ==
  ASSUME Acyclic, IgnoreClosed, TypeInv, TypeInv', LockInv, FrameInv, CallInv,
         NEW s \in Services, Update(s)
  PROVE  CallInv'
<1>1. Run /\ stack # <<>> /\ CallTypes /\ Top.fn = "update" /\ Top.svc = s
  BY DEF Run, ServiceStep, Update, Runs, TypeInv
<1>2. tgts' = tgts
  BY <1>1, RunChanges
<1>3. MustStop(s)' = MustStop(s)
  BY <1>2 DEF MustStop, IsShutdown, HasAttribute
<1>4. \A b \in Held : /\ b \in GoodFrame /\ Fine(b) /\ Over(Top, b) /\ Alone(b)
  BY <1>1, Frames, TopFine
<1>5. \A b \in Held : b.fn = "start" /\ b.at = "tail" =>
        b.svc = s /\ status[s] \in {"Waiting", "Starting"}
  BY <1>1, <1>4 DEF Over, Fine, Call
<1>6. CASE RawStart(s) \/ RawStartFails(s) \/ RawStop(s) \/ UpdateIsIdle(s)
  <2>1. \E v : ReturnWith(v)
    BY <1>6 DEF RawStart, RawStartFails, RawStop, UpdateIsIdle
  <2>2. QED
    BY <1>1, <2>1, RunFine
<1>7. CASE WantsStart(s) /\ BeginStart(s)
  <2>1. PICK f : f = Call("start", s)
    OBVIOUS
  <2>2. f.fn = "start" /\ f.svc = s /\ f.at = "next" /\ f.i = 1
    BY <2>1 DEF Call
  <2>3. Excluded(s) /\ ~MustStop(s)
    BY <1>7 DEF WantsStart, ShouldRun
  <2>4. Fine(f)'
    <3>1. status'[s] = "Waiting"
      BY <1>7 DEF BeginStart, SetStatus, TypeInv, DataTypes
    <3>2. Has(s, 1)'
      BY ServiceAssumption DEF Has
    <3>3. QED
      BY <1>3, <2>2, <2>3, <3>1, <3>2 DEF Fine
  <2>5. ASSUME NEW b \in Held PROVE Over(f, b)'
    <3>1. SUFFICES ASSUME b.fn = "start" PROVE b.at # "tail" /\ Climbs(f, b.svc)'
      BY DEF Over
    <3>2. b.at # "tail"
      BY <1>5, <2>3, <3>1 DEF Excluded
    <3>3. Climbs(Top, b.svc)
      BY <1>4, <3>1, <3>2 DEF Over
    <3>4. QED
      BY <1>1, <1>3, <2>2, <2>3, <3>2, <3>3 DEF Climbs
  <2>6. Below1(f)
    <3>1. SUFFICES ASSUME 2 \in DOMAIN stack PROVE Linked(f, stack[2])
      BY DEF Below1
    <3>2. Linked(Top, stack[2]) /\ stack[2] \in Held
      <4>1. Below1(Top)
        BY <1>1, TopFine
      <4>2. 2 \in 2..Len(stack)
        BY <1>1, <3>1 DEF CallTypes
      <4>3. QED
        BY <3>1, <4>1, <4>2 DEF Below1, Held
    <3>3. ASSUME stack[2].fn \in {"start", "stop", "cascadeStop"}, stack[2].at = "tail" PROVE FALSE
      <4>1. stack[2].svc = s
        BY <1>1, <3>2, <3>3 DEF Linked
      <4>2. CASE stack[2].fn = "start"
        BY <1>5, <2>3, <3>2, <3>3, <4>2 DEF Excluded
      <4>3. CASE stack[2].fn # "start"
        BY <1>4, <2>3, <3>2, <3>3, <4>1, <4>3 DEF Alone, Busy
      <4>4. QED
        BY <4>2, <4>3
    <3>4. QED
      BY <1>1, <2>2, <3>2, <3>3 DEF Linked
  <2>7. Continue(f)
    BY <1>7, <2>1 DEF BeginStart
  <2>8. QED
    BY <1>1, <2>4, <2>5, <2>6, <2>7, RunFine DEF Enters
<1>8. CASE WantsStop(s) /\ BeginStop(s)
  <2>1. PICK f : f = Call("stop", s)
    OBVIOUS
  <2>2. f.fn = "stop" /\ f.svc = s /\ f.at = "next" /\ f.i = 1
    BY <2>1 DEF Call
  <2>3. Included(s) /\ ~ShouldRun(s) /\ dependedBy' = dependedBy
    BY <1>8 DEF WantsStop, BeginStop, edgeVars
  <2>4. ASSUME NEW b \in Held PROVE Over(f, b)'
    <3>1. SUFFICES ASSUME b.fn = "start" PROVE b.at # "tail" /\ Climbs(f, b.svc)'
      BY DEF Over
    <3>2. b.at # "tail"
      BY <1>5, <2>3, <3>1 DEF Included
    <3>3. Climbs(Top, b.svc)
      BY <1>4, <3>1, <3>2 DEF Over
    <3>4. stack # <<Call("update", s)>>
      <4>1. Len(stack) >= 2
        BY <1>1 DEF Held, CallTypes
      <4>2. SUFFICES ASSUME stack = <<Call("update", s)>> PROVE FALSE
        OBVIOUS
      <4>3. Len(stack) = 1
        BY <4>2
      <4>4. QED
        BY <4>1, <4>3
    <3>5. dependedBy[s] = <<>>
      BY <1>1, <2>3, <3>3, <3>4 DEF ShouldRun, LockInv, Climbs
    <3>6. QED
      BY <1>1, <1>3, <2>2, <2>3, <3>2, <3>3, <3>5 DEF Climbs
  <2>5. Fine(f)'
    BY <2>2 DEF Fine
  <2>6. Below1(f)
    <3>1. Below1(Top)
      BY <1>1, TopFine
    <3>2. QED
      BY <1>1, <2>2, <3>1 DEF Below1, Linked
  <2>7. Continue(f)
    BY <1>8, <2>1 DEF BeginStop
  <2>8. QED
    BY <1>1, <2>4, <2>5, <2>6, <2>7, RunFine DEF Enters
<1>9. QED
  BY <1>6, <1>7, <1>8 DEF Update

\* stop(), cascadeStop() and finishStart() go on to the next dependent: they are
\* not in start(), which stops only what nobody needs.
LEMMA WalkFine ==
  ASSUME Acyclic, IgnoreClosed, TypeInv, TypeInv', FrameInv, CallInv,
         NEW s \in Services,
         StopNext(s) \/ CascadeEnters(s) \/ CascadeNext(s) \/ FinishStartNext(s)
  PROVE  CallInv'
<1>1. Run /\ stack # <<>> /\ CallTypes /\ Top.svc = s
      /\ Top.fn \in {"stop", "cascadeStop", "finishStart"}
  BY DEF Run, ServiceStep, StopNext, CascadeEnters, CascadeNext, FinishStartNext,
         Runs, TypeInv
<1>2. Top \in GoodServiceFrame
  BY <1>1, Frames DEF GoodFrame, TargetFrame, CommandFrame
<1>3. ASSUME NEW b \in Held, b.fn = "start" PROVE FALSE
  <2>1. Over(Top, b)
    BY <1>1, TopFine
  <2>2. Climbs(Top, b.svc)
    BY <1>1, <1>3, <2>1 DEF Over, Call
  <2>3. StopNext(s) /\ dependedBy[s] = <<>>
    BY <1>1, <2>2 DEF Climbs, CascadeEnters, CascadeNext, FinishStartNext, Runs
  <2>4. Top.i <= 0 /\ Top.i >= 1
    BY <1>2, <2>3 DEF StopNext, MoreDependents, GoodServiceFrame
  <2>5. Top.i \in Nat
    BY <1>2 DEF GoodServiceFrame, ServiceFrame
  <2>6. QED
    BY <2>4, <2>5
<1>4. PICK next, at : next = Next1 /\ at = At("next")
  OBVIOUS
<1>5. \A f \in {next, at} : f.fn = Top.fn /\ f.svc = s /\ f.at = "next"
  BY <1>1, <1>2, <1>4 DEF Next1, At, GoodServiceFrame, ServiceFrame
<1>6. \A f \in {next, at} : Enters(f) /\ Below1(f)
  BY <1>1, <1>3, <1>5, NotStart, SameBelow
<1>7. \/ \E v : ReturnWith(v)
      \/ \E f \in {next, at} : Continue(f)
      \/ \E g : Invoke(next, g) /\ g.fn \in {"update", "cascadeStop"}
  BY <1>4 DEF StopNext, CascadeEnters, CascadeNext, FinishStartNext, Call, CascadeCall
<1>8. ASSUME NEW g, g.fn \in {"update", "cascadeStop"}
      PROVE  Enters(g) /\ Over(g, next)' /\ Linked(g, next)
  <2>1. Enters(g)
    BY <1>3, <1>8, NotStart
  <2>2. Over(g, next)' /\ Linked(g, next)
    BY <1>1, <1>5 DEF Over, Linked
  <2>3. QED
    BY <2>1, <2>2
<1>9. QED
  BY <1>1, <1>6, <1>7, <1>8, RunFine

\* start(), stop() and cascadeStop() end with update() of their own service.
LEMMA UpdateSelfFine ==
  ASSUME Acyclic, IgnoreClosed, TypeInv, TypeInv', FrameInv, CallInv,
         NEW s \in Services, UpdateSelf(s)
  PROVE  CallInv'
<1>1. /\ Run /\ stack # <<>> /\ CallTypes /\ Top.svc = s /\ Top.at = "next"
      /\ Top.fn \in {"start", "stop", "cascadeStop"}
      /\ UNCHANGED <<status, deps, dependedBy, tgts>>
  BY DEF Run, ServiceStep, UpdateSelf, Runs, TypeInv, serviceVars, edgeVars, targetVars
<1>2. Top \in GoodServiceFrame
  BY <1>1, Frames DEF GoodFrame, TargetFrame, CommandFrame
<1>3. PICK f : f = At("tail")
  OBVIOUS
<1>4. f.fn = Top.fn /\ f.svc = s /\ f.at = "tail" /\ f.i = Top.i
  BY <1>1, <1>2, <1>3 DEF At, GoodServiceFrame, ServiceFrame
<1>5. PICK g : g = Call("update", s)
  OBVIOUS
<1>6. g.fn = "update" /\ g.svc = s
  BY <1>5 DEF Call
<1>7. MustStop(s)' = MustStop(s)
  BY <1>1 DEF MustStop, IsShutdown, HasAttribute
<1>8. Fine(f)'
  <2>1. SUFFICES ASSUME f.fn = "start" PROVE Fine(f)'
    BY DEF Fine
  <2>2. Fine(Top) /\ PastBoth(s)
    <3>1. Fine(Top)
      BY <1>1, TopFine
    <3>2. ListIsDone(s)
      BY DEF UpdateSelf
    <3>3. QED
      BY <1>4, <2>1, <3>1, <3>2 DEF ListIsDone
  <2>3. ~MustStop(s) /\ status[s] = "Waiting" /\ Has(s, f.i)
    BY <1>1, <1>4, <2>1, <2>2 DEF Fine
  <2>4. Complete(s)
    <3>1. /\ Len(Depend[s]) \in Nat /\ Len(After[s]) \in Nat /\ f.i \in Nat
          /\ DOMAIN Depend[s] = 1..Len(Depend[s])
      BY <1>2, <1>4, ServiceAssumption DEF GoodServiceFrame, ServiceFrame
    <3>2. f.i > Len(Depend[s]) + Len(After[s])
      BY <1>4, <2>2 DEF PastBoth
    <3>3. ASSUME NEW j \in DOMAIN Depend[s] PROVE j < f.i
      <4>1. PICK n, m, i \in Nat : n = Len(Depend[s]) /\ m = Len(After[s]) /\ i = f.i
        BY <3>1
      <4>2. j \in 1..n /\ i > n + m
        BY <3>1, <3>2, <4>1
      <4>3. j < i
        BY <4>2
      <4>4. QED
        BY <4>1, <4>3
    <3>4. QED
      BY <2>3, <3>3 DEF Complete, Has
  <2>5. Complete(s)' /\ Has(s, f.i)'
    BY <1>1, <2>3, <2>4 DEF Complete, Has, Recorded
  <2>6. QED
    BY <1>1, <1>4, <1>7, <2>3, <2>5 DEF Fine
<1>9. ASSUME NEW b \in Held, b.fn = "start"
      PROVE  b.at # "tail" /\ Climbs(f, b.svc)' /\ Climbs(g, b.svc)'
  <2>1. Over(Top, b)
    BY <1>1, TopFine
  <2>2. b.at # "tail" /\ Climbs(Top, b.svc)
    BY <1>1, <1>9, <2>1 DEF Over, Call
  <2>3. QED
    BY <1>1, <1>4, <1>6, <1>7, <2>2 DEF Climbs
<1>10. Enters(f) /\ Enters(g)
  <2>1. Fine(g)'
    BY <1>6 DEF Fine
  <2>2. QED
    BY <1>8, <1>9, <2>1 DEF Enters, Over
<1>11. Over(g, f)' /\ Linked(g, f) /\ Below1(f)
  <2>1. Over(g, f)' /\ Linked(g, f)
    BY <1>4, <1>5, <1>6 DEF Over, Linked
  <2>2. QED
    BY <1>1, <1>4, <2>1, SameBelow
<1>12. Invoke(f, g)
  BY <1>3, <1>5 DEF UpdateSelf
<1>13. QED
  BY <1>1, <1>10, <1>11, <1>12, RunFine

\* finishStop() and setTarget are at the bottom.
LEMMA BottomFine ==
  ASSUME Acyclic, IgnoreClosed, TypeInv, TypeInv', FrameInv, CallInv,
         TargetNext \/ \E s \in Services : FinishStopNext(s)
  PROVE  CallInv'
<1>1. Run /\ stack # <<>> /\ CallTypes /\ Top.fn \in {"finishStop", "setTarget"}
  BY DEF Run, ServiceStep, FinishStopNext, TargetNext, Runs, TypeInv
<1>2. Held = {} /\ Top \in GoodFrame
  BY <1>1, Frames, Walks
<1>3. \E f, g : Invoke(f, g) /\ f.fn = Top.fn /\ g.fn = "update"
  <2>1. CASE TargetNext
    <3>1. PICK s \in Top.todo : Invoke([Top EXCEPT !.todo = @ \ {s}], Call("update", s))
      BY <2>1 DEF TargetNext
    <3>2. [Top EXCEPT !.todo = @ \ {s}].fn = Top.fn
      BY <1>2, <2>1 DEF TargetNext, GoodFrame, GoodServiceFrame, ServiceFrame,
                        TargetFrame, CommandFrame
    <3>3. PICK f, g : f = [Top EXCEPT !.todo = @ \ {s}] /\ g = Call("update", s)
      OBVIOUS
    <3>4. Invoke(f, g) /\ f.fn = Top.fn /\ g.fn = "update"
      BY <3>1, <3>2, <3>3 DEF Call
    <3>5. QED
      BY <3>4
  <2>2. ASSUME NEW s \in Services, FinishStopNext(s)
        PROVE  \E f, g : Invoke(f, g) /\ f.fn = Top.fn /\ g.fn = "update"
    <3>1. Next1.fn = Top.fn
      BY <1>2, <2>2 DEF FinishStopNext, Runs, Next1, GoodFrame, GoodServiceFrame,
                        ServiceFrame, TargetFrame, CommandFrame
    <3>2. \E g : Invoke(Next1, g) /\ g.fn = "update"
      BY <2>2 DEF FinishStopNext, Call
    <3>3. QED
      BY <3>1, <3>2
  <2>3. QED
    BY <2>1, <2>2
<1>4. PICK f, g : Invoke(f, g) /\ f.fn = Top.fn /\ g.fn = "update"
  BY <1>3
<1>5. Enters(f) /\ Enters(g)
  BY <1>1, <1>2, <1>4, NotStart
<1>6. Over(g, f)' /\ Linked(g, f)
  BY <1>1, <1>4 DEF Over, Linked
<1>7. Below1(f)
  <2>1. ~(2 \in DOMAIN stack)
    BY <1>1, <1>2 DEF Held, CallTypes
  <2>2. QED
    BY <2>1 DEF Below1
<1>8. QED
  BY <1>1, <1>4, <1>5, <1>6, <1>7, RunFine

\* The others return.
LEMMA RunCallInv ==
  ASSUME Acyclic, IgnoreClosed, AllInstalled, TypeInv, TypeInv', LockInv, FrameInv,
         CallInv, Run
  PROVE  CallInv'
<1>1. CASE \/ CommandReturns \/ TargetEnds
           \/ \E s \in Services : \/ ReturnFromTail(s) \/ FinishStartFails(s)
                                  \/ FinishStartEnds(s) \/ FinishStopEnds(s)
  <2>1. \E v : ReturnWith(v)
    BY <1>1 DEF CommandReturns, TargetEnds, ReturnFromTail, FinishStartFails,
                FinishStartEnds, FinishStopEnds
  <2>2. QED
    BY <2>1, RunFine
<1>2. QED
  BY <1>1, UpdateFine, StartFine, UpdateSelfFine, WalkFine, BottomFine
     DEF Run, ServiceStep

-----------------------------------------------------------------------------
(* Requests and reports.                                                   *)

\* What the daemon does with a report.
LEMMA Reports ==
  ASSUME TypeInv, NEW s \in Services, Deliver(s)
  PROVE  /\ stack = <<>> /\ outbox[s] # <<>>
         /\ \/ FinishStartService(s) /\ Head(outbox[s]) = "finstart"
            \/ ServiceFinishes(s) \/ FailService(s)
            \/ FinishStopService(s) /\ Head(outbox[s]) \in Farewell
<1>1. outbox[s] \in Seq(Message) /\ outbox[s] # <<>> /\ Handler(s, Head(outbox[s]))
  BY DEF Deliver, TypeInv, DataTypes, LaunchTypeOK
<1>2. Head(outbox[s]) \in Message
  BY <1>1
<1>3. QED
  BY <1>1, <1>2 DEF Handler, Message, Farewell, Deliver, Idle

\* A call that a request or a report begins with.
First(f) == f.fn # "start" /\ (f.fn \in {"stop", "cascadeStop"} => f.at = "enter")

\* They begin when no call is in progress, and make no call of start().
LEMMA FirstCalls ==
  ASSUME TypeInv, LockInv,
         Boot \/ (\E c \in Clients : Request(c)) \/ (\E s \in Services : Deliver(s))
  PROVE  /\ stack = <<>> /\ UNCHANGED <<deps, dependedBy>>
         /\ \A k \in DOMAIN stack' : First(stack'[k])
         /\ stack' # <<>> => ret' = "idle"
<1>1. stack = <<>>
  BY DEF Boot, Request, Deliver, Idle, LockInv
<1>2. /\ UNCHANGED <<deps, dependedBy>>
      /\ \/ stack' = <<>>
         \/ ret' = "idle" /\ \E f : stack' = <<f>> /\ First(f)
         \/ ret' = "idle" /\ \E f, g : stack' = <<f, g>> /\ First(f) /\ First(g)
  <2>1. /\ \A s \in Services : First(Call("update", s)) /\ First(CascadeCall(s))
        /\ \A s \in Services, fn \in {"finishStart", "finishStop"} : First(Call(fn, s))
        /\ \A c : First(Command(c))
    BY DEF First, CascadeCall, Call, Command
  <2>2. ASSUME NEW t \in Targets, SetTarget(t)
        PROVE  stack' = <<>> \/ (ret' = "idle" /\ \E f : stack' = <<f>> /\ First(f))
    BY <1>1, <2>2 DEF SetTarget, EnterTarget, EnterTargetFails, callVars, Serve, First
  <2>3. ASSUME NEW s \in Services, NEW c \in Clients, StartService(s, c) \/ StopService(s, c)
        PROVE  \/ stack' = <<>>
               \/ ret' = "idle" /\ \E f, g : stack' = <<f, g>> /\ First(f) /\ First(g)
    BY <1>1, <2>1, <2>3 DEF StartService, StopService, Refuse, callVars, Serve
  <2>4. ASSUME NEW s \in Services, NEW c \in Clients, CascadeStopService(s, c)
        PROVE  stack' = <<>> \/ (ret' = "idle" /\ \E f : stack' = <<f>> /\ First(f))
    BY <1>1, <2>1, <2>4 DEF CascadeStopService, callVars, Serve
  <2>5. ASSUME NEW s \in Services, Deliver(s)
        PROVE  /\ UNCHANGED <<deps, dependedBy>>
               /\ ret' = "idle" /\ \E f : stack' = <<f>> /\ First(f)
    <3>1. \/ FinishStartService(s) \/ ServiceFinishes(s) \/ FailService(s)
          \/ FinishStopService(s)
      BY <2>5, Reports
    <3>2. /\ UNCHANGED <<deps, dependedBy>> /\ ret' = "idle"
          /\ \E fn \in {"update", "finishStart", "finishStop"} : stack' = <<Call(fn, s)>>
      BY <3>1 DEF FinishStartService, ServiceFinishes, FailService, FinishStopService, Serve,
                  edgeVars
    <3>3. QED
      BY <2>1, <3>2
  <2>6. ASSUME Boot \/ \E c \in Clients : Request(c) PROVE UNCHANGED <<deps, dependedBy>>
    BY <2>6 DEF Boot, Request, StartService, StopService, CascadeStopService, Refuse,
                SetTarget, edgeVars
  <2>7. ASSUME Boot \/ \E c \in Clients : Request(c)
        PROVE  \/ \E t \in Targets : SetTarget(t)
               \/ \E s \in Services, c \in Clients :
                    StartService(s, c) \/ StopService(s, c) \/ CascadeStopService(s, c)
    BY <2>7, DaemonAssumption DEF Boot, Request
  <2>8. QED
    BY <2>2, <2>3, <2>4, <2>5, <2>6, <2>7
<1>3. ASSUME NEW f, NEW g, stack' = <<f>> \/ stack' = <<f, g>>, NEW k \in DOMAIN stack'
      PROVE  stack'[k] = f \/ (stack' = <<f, g>> /\ stack'[k] = g)
  <2>1. \A j \in DOMAIN <<f, g>> : <<f, g>>[j] = f \/ <<f, g>>[j] = g
    OBVIOUS
  <2>2. \A j \in DOMAIN <<f>> : <<f>>[j] = f
    OBVIOUS
  <2>3. QED
    BY <1>3, <2>1, <2>2
<1>4. CASE stack' = <<>>
  BY <1>1, <1>2, <1>4
<1>5. ASSUME NEW f, stack' = <<f>>, First(f), ret' = "idle"
      PROVE  (\A k \in DOMAIN stack' : First(stack'[k])) /\ ret' = "idle"
  <2>1. \A k \in DOMAIN stack' : stack'[k] = f
    BY <1>5
  <2>2. QED
    BY <1>5, <2>1
<1>6. ASSUME NEW f, NEW g, stack' = <<f, g>>, First(f), First(g), ret' = "idle"
      PROVE  (\A k \in DOMAIN stack' : First(stack'[k])) /\ ret' = "idle"
  <2>1. \A k \in DOMAIN stack' : stack'[k] = f \/ stack'[k] = g
    BY <1>3, <1>6
  <2>2. QED
    BY <1>6, <2>1
<1>7. QED
  BY <1>1, <1>2, <1>4, <1>5, <1>6

\* A step that is neither the daemon's nor a launcher's is none.
LEMMA StepKinds ==
  ASSUME [Next]_vars
  PROVE  \/ Run
         \/ Boot \/ (\E c \in Clients : Request(c)) \/ (\E s \in Services : Deliver(s))
         \/ \E s \in Services : Launch(s)
         \/ UNCHANGED vars
  BY DEF Next

\* A launcher's step changes nothing of the daemon.
LEMMA LaunchChanges ==
  ASSUME (\E s \in Services : Launch(s)) \/ UNCHANGED vars
  PROVE  UNCHANGED <<status, deps, dependedBy, failLocked, tgts, stack, ret, faults>>
  BY DEF Launch, vars, serviceVars, edgeVars, targetVars, callVars

\* Every step keeps what is said of the calls.
LEMMA NextCallInv ==
  ASSUME Acyclic, IgnoreClosed, AllInstalled, TypeInv, TypeInv', LockInv, FrameInv,
         CallInv, [Next]_vars
  PROVE  CallInv'
<1>1. CASE Run
  BY <1>1, RunCallInv
<1>2. CASE Boot \/ (\E c \in Clients : Request(c)) \/ (\E s \in Services : Deliver(s))
  <2>1. \A k \in DOMAIN stack' : First(stack'[k])
    BY <1>2, FirstCalls
  <2>2. stack' \in Seq(GoodFrame)
    BY DEF TypeInv, CallTypes
  <2>3. \A k \in 2..Len(stack') : k \in DOMAIN stack'
    BY <2>2
  <2>4. QED
    BY <2>1, <2>3 DEF CallInv, First, Fine, Over, Linked
<1>3. CASE (\E s \in Services : Launch(s)) \/ UNCHANGED vars
  <2>1. UNCHANGED <<status, deps, dependedBy, tgts, stack>>
    BY <1>3, LaunchChanges
  <2>2. \A s : MustStop(s)' = MustStop(s)
    BY <2>1 DEF MustStop, IsShutdown, HasAttribute
  <2>3. \A s, n : Has(s, n)' = Has(s, n) /\ Complete(s)' = Complete(s)
    BY <2>1 DEF Has, Complete, Recorded
  <2>4. \A f, b : Over(f, b)' = Over(f, b) /\ Fine(f)' = Fine(f) /\ Linked(f, b)' = Linked(f, b)
    BY <2>1, <2>2, <2>3 DEF Over, Climbs, Fine, Linked
  <2>5. QED
    BY <2>1, <2>4 DEF CallInv
<1>4. QED
  BY <1>1, <1>2, <1>3, StepKinds

-----------------------------------------------------------------------------
(* Who is in start().                                                      *)

\* The calls in progress after a step of the running one.
LEMMA FramesNext ==
  ASSUME CallTypes, stack # <<>>
  PROVE  /\ (\E v : ReturnWith(v)) => {stack'[k] : k \in DOMAIN stack'} = Held
         /\ \A f : Continue(f) => {stack'[k] : k \in DOMAIN stack'} = Held \union {f}
         /\ \A f, g : Invoke(f, g) =>
              {stack'[k] : k \in DOMAIN stack'} = Held \union {f, g}
<1>1. PICK r \in Seq(GoodFrame) : r = Tail(stack)
  <2>1. stack \in Seq(GoodFrame) /\ stack # <<>>
    BY DEF CallTypes
  <2>2. Tail(stack) \in Seq(GoodFrame)
    BY <2>1
  <2>3. QED
    BY <2>2
<1>2. PICK t : t = stack'
  OBVIOUS
<1>3. /\ Len(r) \in Nat /\ DOMAIN r = 1..Len(r) /\ Len(stack) = Len(r) + 1
      /\ \A k \in 1..Len(r) : k + 1 \in 2..Len(stack) /\ r[k] = stack[k + 1]
      /\ \A k \in 2..Len(stack) : k - 1 \in 1..Len(r) /\ stack[k] = r[k - 1]
  BY <1>1 DEF CallTypes
<1> DEFINE FramesIn(q) == {q[k] : k \in DOMAIN q}
<1>4. Held = FramesIn(r)
  BY <1>3 DEF Held
<1>5. {stack'[k] : k \in DOMAIN stack'} = FramesIn(t)
  BY <1>2
<1>6. ASSUME \E v : ReturnWith(v) PROVE FramesIn(t) = FramesIn(r)
  BY <1>1, <1>2, <1>6 DEF ReturnWith
<1>7. ASSUME NEW f, Continue(f) PROVE FramesIn(t) = FramesIn(r) \union {f}
  <2>1. t = <<f>> \o r
    BY <1>1, <1>2, <1>7 DEF Continue
  <2>2. <<f>> \in Seq({f} \union GoodFrame) /\ r \in Seq({f} \union GoodFrame)
    BY <1>1
  <2>3. /\ DOMAIN t = 1..(1 + Len(r)) /\ t[1] = f
        /\ \A k \in 2..(1 + Len(r)) : t[k] = r[k - 1]
    BY <2>1, <2>2
  <2>4. /\ \A k \in DOMAIN t : k = 1 \/ (k - 1 \in DOMAIN r /\ t[k] = r[k - 1])
        /\ \A k \in DOMAIN r : k + 1 \in DOMAIN t /\ t[k + 1] = r[k]
        /\ 1 \in DOMAIN t
    BY <1>3, <2>3
  <2>5. QED
    BY <2>3, <2>4
<1>8. ASSUME NEW f, NEW g, Invoke(f, g) PROVE FramesIn(t) = FramesIn(r) \union {f, g}
  <2>1. t = <<g, f>> \o r
    BY <1>1, <1>2, <1>8 DEF Invoke
  <2>2. <<g, f>> \in Seq({f, g} \union GoodFrame) /\ r \in Seq({f, g} \union GoodFrame)
    BY <1>1
  <2>3. /\ DOMAIN t = 1..(2 + Len(r)) /\ t[1] = g /\ t[2] = f
        /\ \A k \in 3..(2 + Len(r)) : t[k] = r[k - 2]
    BY <2>1, <2>2
  <2>4. /\ \A k \in DOMAIN t : k = 1 \/ k = 2 \/ (k - 2 \in DOMAIN r /\ t[k] = r[k - 2])
        /\ \A k \in DOMAIN r : k + 2 \in DOMAIN t /\ t[k + 2] = r[k]
        /\ 1 \in DOMAIN t /\ 2 \in DOMAIN t
    BY <1>3, <2>3
  <2>5. ASSUME NEW k \in DOMAIN t PROVE t[k] \in FramesIn(r) \union {f, g}
    BY <2>3, <2>4
  <2>6. ASSUME NEW k \in DOMAIN r PROVE r[k] \in FramesIn(t)
    BY <2>4
  <2>7. f \in FramesIn(t) /\ g \in FramesIn(t)
    BY <2>3, <2>4
  <2>8. QED
    BY <2>5, <2>6, <2>7
<1>9. QED
  BY <1>4, <1>5, <1>6, <1>7, <1>8

\* A call that goes on, or makes another, is the same start() or none.
SameStart(f) == (f.fn = "start" <=> Top.fn = "start") /\ (f.fn = "start" => f.svc = Top.svc)

\* An error is returned.
Errs ==
  \E s \in Services :
    \/ Update(s) /\ ReadyToStart(s) /\ RawStartFails(s)
    \/ StartDepends(s) /\ DependAt(s).name \notin Known /\ ~DependAt(s).optional
    \/ /\ StartDepended(s) /\ ret = "err" /\ ~DependAt(s).optional
       /\ UNCHANGED <<deps, dependedBy>>
    \/ ReturnFromTail(s) /\ ret = "err"
    \/ FinishStartFails(s)

\* The running call returns: start() does so with an error or from its tail.
Returns ==
  \E v : /\ ReturnWith(v)
         /\ v = "err" => Errs
         /\ Top.fn = "start" => Errs \/ \E s \in Services : ReturnFromTail(s)

\* update() of s begins start().
Begins(s) == Update(s) /\ WantsStart(s) /\ BeginStart(s)

\* The running call returns, goes on, begins start() or makes another call.
LEMMA RunKinds ==
  ASSUME TypeInv, FrameInv, Run
  PROVE  \/ Returns
         \/ \E f : /\ Continue(f) /\ f.at = "next"
                   /\ SameStart(f) \/ \E s \in Services : Begins(s) /\ f.fn = "start" /\ f.svc = s
         \/ \E f, g : Invoke(f, g) /\ SameStart(f) /\ g.fn \in {"update", "cascadeStop"}
                      /\ (g.fn = "cascadeStop" => g.at = "enter")
<1>1. stack # <<>> /\ CallTypes
  BY RunChanges DEF TypeInv
<1>2. Top \in GoodFrame
  BY <1>1, Frames
<1>3. PICK next, enter, self, tried, after, tail :
        /\ next = Next1 /\ enter = At("next") /\ self = At("depended")
        /\ tried = At("tried") /\ after = At("after") /\ tail = At("tail")
  OBVIOUS
<1>4. Top \in GoodServiceFrame =>
        /\ \A f \in {next, enter, self, tried, after, tail} : SameStart(f)
        /\ next.at = "next" /\ enter.at = "next"
  BY <1>3 DEF Next1, At, SameStart, GoodServiceFrame, ServiceFrame
<1>5. \A d : /\ Call("update", d).fn = "update"
             /\ CascadeCall(d).fn = "cascadeStop" /\ CascadeCall(d).at = "enter"
  BY DEF Call, CascadeCall
<1>6. CASE TargetNext
  <2>1. PICK s \in Top.todo : Invoke([Top EXCEPT !.todo = @ \ {s}], Call("update", s))
    BY <1>6 DEF TargetNext
  <2>2. PICK f : f = [Top EXCEPT !.todo = @ \ {s}]
    OBVIOUS
  <2>3. f.fn = Top.fn /\ Top.fn = "setTarget"
    BY <1>2, <1>6, <2>2 DEF TargetNext, GoodFrame, GoodServiceFrame, ServiceFrame,
                            TargetFrame, CommandFrame
  <2>4. QED
    BY <1>5, <2>1, <2>2, <2>3 DEF SameStart
<1>7. CASE CommandReturns \/ TargetEnds
  BY <1>7 DEF CommandReturns, TargetEnds, Returns
<1>8. ASSUME NEW s \in Services, Update(s)
      PROVE  \/ Returns
             \/ \E f : /\ Continue(f) /\ f.at = "next"
                       /\ SameStart(f) \/ (Begins(s) /\ f.fn = "start" /\ f.svc = s)
  <2>1. \/ Returns
        \/ Begins(s) /\ Continue(Call("start", s))
        \/ Continue(Call("stop", s))
    <3>1. ReadyToStart(s) /\ RawStartFails(s) => Returns
      BY <1>8 DEF RawStartFails, Returns, Errs, Update, Runs
    <3>2. RawStart(s) \/ RawStop(s) \/ UpdateIsIdle(s) => Returns
      BY <1>8 DEF RawStart, RawStop, UpdateIsIdle, Returns, Update, Runs
    <3>3. QED
      BY <1>8, <3>1, <3>2 DEF Begins, Update, BeginStart, BeginStop
  <2>2. SameStart(Call("stop", s)) /\ Call("stop", s).at = "next"
    BY <1>8 DEF Update, Runs, SameStart, Call
  <2>3. /\ Call("start", s).fn = "start" /\ Call("start", s).svc = s
        /\ Call("start", s).at = "next"
    BY DEF Call
  <2>4. QED
    BY <1>8, <2>1, <2>2, <2>3
<1>9. ASSUME NEW s \in Services, ServiceStep, ~Update(s),
             \/ StartDepends(s) \/ StartDepended(s)
             \/ StartTriesAfter(s) \/ StartTriedAfter(s) \/ StartAddedAfter(s)
             \/ UpdateSelf(s) \/ ReturnFromTail(s)
             \/ StopNext(s) \/ CascadeEnters(s) \/ CascadeNext(s)
             \/ FinishStartNext(s) \/ FinishStartFails(s) \/ FinishStartEnds(s)
             \/ FinishStopNext(s) \/ FinishStopEnds(s)
      PROVE  \/ Returns
             \/ \E f \in {next, enter} : Continue(f)
             \/ \E f \in {next, self, tried, after, tail} : \E d :
                  Invoke(f, Call("update", d)) \/ Invoke(f, CascadeCall(d))
  <2>1. CASE \/ StartDepends(s) \/ StartDepended(s)
             \/ StartTriesAfter(s) \/ StartTriedAfter(s) \/ StartAddedAfter(s)
    <3>1. StartDepends(s) => \/ Invoke(self, Call("update", DependAt(s).name)) \/ Continue(next)
                             \/ Returns
      <4>1. SUFFICES ASSUME StartDepends(s), ReturnWith("err"), DependAt(s).name \notin Known,
                            ~DependAt(s).optional
                     PROVE  Returns
        BY <1>3 DEF StartDepends
      <4>2. Errs
        BY <4>1 DEF Errs
      <4>3. QED
        BY <4>1, <4>2 DEF Returns
    <3>2. StartDepended(s) => Continue(next) \/ Returns
      <4>1. SUFFICES ASSUME StartDepended(s), ReturnWith("err"), ret = "err",
                            ~DependAt(s).optional, UNCHANGED <<deps, dependedBy>>
                     PROVE  Returns
        BY <1>3 DEF StartDepended, edgeVars
      <4>2. Errs
        BY <4>1 DEF Errs
      <4>3. QED
        BY <4>1, <4>2 DEF Returns
    <3>3. StartTriesAfter(s) \/ StartTriedAfter(s) \/ StartAddedAfter(s) =>
            \/ Continue(next)
            \/ \E f \in {tried, after} : Invoke(f, Call("update", AfterAt(s)))
      BY <1>3 DEF StartTriesAfter, StartTriedAfter, StartAddedAfter
    <3>4. QED
      BY <2>1, <3>1, <3>2, <3>3
  <2>2. CASE \/ UpdateSelf(s) \/ ReturnFromTail(s)
             \/ StopNext(s) \/ CascadeEnters(s) \/ CascadeNext(s)
    <3>1. ReturnFromTail(s) => Returns
      <4>1. SUFFICES ASSUME ReturnFromTail(s) PROVE Returns
        OBVIOUS
      <4>2. PICK v : v = (IF ret = "err" THEN "err" ELSE "acted") /\ ReturnWith(v)
        BY <4>1 DEF ReturnFromTail
      <4>3. v = "err" => Errs
        BY <4>1, <4>2 DEF Errs
      <4>4. QED
        BY <4>1, <4>2, <4>3 DEF Returns
    <3>2. CascadeEnters(s) => Continue(enter) \/ Returns
      BY <1>3 DEF CascadeEnters, Runs, Returns
    <3>3. UpdateSelf(s) => Invoke(tail, Call("update", s))
      BY <1>3 DEF UpdateSelf
    <3>4. StopNext(s) => Invoke(next, Call("update", DependentAt(s).name))
      BY <1>3 DEF StopNext
    <3>5. CascadeNext(s) => \/ Continue(next)
                            \/ Invoke(next, CascadeCall(DependentAt(s).name))
      BY <1>3 DEF CascadeNext
    <3>6. QED
      BY <2>2, <3>1, <3>2, <3>3, <3>4, <3>5
  <2>3. CASE \/ FinishStartNext(s) \/ FinishStartFails(s) \/ FinishStartEnds(s)
             \/ FinishStopNext(s) \/ FinishStopEnds(s)
    <3>1. FinishStartFails(s) => Returns
      BY DEF FinishStartFails, Runs, Returns, Errs
    <3>2. FinishStartEnds(s) \/ FinishStopEnds(s) => Returns
      BY DEF FinishStartEnds, FinishStopEnds, Runs, Returns
    <3>3. FinishStartNext(s) => Invoke(next, Call("update", DependentAt(s).name))
      BY <1>3 DEF FinishStartNext
    <3>4. FinishStopNext(s) => Invoke(next, Call("update", deps[s][Top.i].name))
      BY <1>3 DEF FinishStopNext
    <3>5. QED
      BY <2>3, <3>1, <3>2, <3>3, <3>4
  <2>4. QED
    BY <1>9, <2>1, <2>2, <2>3
<1>10. ServiceStep /\ ~(\E s \in Services : Update(s)) => Top \in GoodServiceFrame
  BY <1>2 DEF ServiceStep, StartDepends, StartDepended, StartTriesAfter, StartTriedAfter,
              StartAddedAfter, UpdateSelf, ReturnFromTail, StopNext, CascadeEnters,
              CascadeNext, FinishStartNext, FinishStartFails, FinishStartEnds,
              FinishStopNext, FinishStopEnds, Runs, GoodFrame, TargetFrame, CommandFrame
<1>11. CASE ServiceStep /\ ~\E s \in Services : Update(s)
  <2>1. \/ Returns
        \/ \E f \in {next, enter} : Continue(f)
        \/ \E f \in {next, self, tried, after, tail} : \E d :
             Invoke(f, Call("update", d)) \/ Invoke(f, CascadeCall(d))
    BY <1>9, <1>11 DEF ServiceStep
  <2>2. /\ \A f \in {next, enter, self, tried, after, tail} : SameStart(f)
        /\ next.at = "next" /\ enter.at = "next"
    BY <1>4, <1>10, <1>11
  <2>3. QED
    BY <1>5, <2>1, <2>2
<1>12. QED
  BY <1>6, <1>7, <1>8, <1>11 DEF Run

\* start() of a service begins with update() of one that is down, and ends when
\* it returns.
LEMMA StartSet ==
  ASSUME TypeInv, FrameInv, CallInv, Run, NEW s \in Services
  PROVE  \/ (InStart(s)' <=> InStart(s))
         \/ Begins(s) /\ InStart(s)'
         \/ Top.fn = "start" /\ Top.svc = s /\ Returns /\ ~InStart(s)'
<1>1. stack # <<>> /\ CallTypes
  BY RunChanges DEF TypeInv
<1> DEFINE Starts(f) == f.fn = "start" /\ f.svc = s
<1>2. InStart(s) <=> \E f \in Held \union {Top} : Starts(f)
  BY <1>1, TopFine
<1>3. InStart(s)' <=> \E f \in {stack'[k] : k \in DOMAIN stack'} : Starts(f)
  BY DEF InStart
<1>4. CASE Returns
  <2>1. InStart(s)' <=> \E f \in Held : Starts(f)
    BY <1>1, <1>3, <1>4, FramesNext DEF Returns
  <2>2. QED
    BY <1>2, <1>4, <2>1
<1>5. ASSUME NEW f, Continue(f), SameStart(f) PROVE (InStart(s)' <=> InStart(s))
  <2>1. InStart(s)' <=> \E h \in Held \union {f} : Starts(h)
    BY <1>1, <1>3, <1>5, FramesNext
  <2>2. Starts(f) <=> Starts(Top)
    BY <1>5 DEF SameStart
  <2>3. QED
    BY <1>2, <2>1, <2>2
<1>6. ASSUME NEW f, Continue(f), NEW r \in Services, Begins(r),
             f.fn = "start", f.svc = r
      PROVE  (InStart(s)' <=> InStart(s)) \/ (Begins(s) /\ InStart(s)')
  <2>1. InStart(s)' <=> \E h \in Held \union {f} : Starts(h)
    BY <1>1, <1>3, <1>6, FramesNext
  <2>2. ~Starts(Top)
    BY <1>6 DEF Begins, Update, Runs
  <2>3. CASE r = s
    BY <1>6, <2>1, <2>3
  <2>4. CASE r # s
    BY <1>2, <1>6, <2>1, <2>2, <2>4
  <2>5. QED
    BY <2>3, <2>4
<1>7. ASSUME NEW f, NEW g, Invoke(f, g), SameStart(f), g.fn # "start"
      PROVE  (InStart(s)' <=> InStart(s))
  <2>1. InStart(s)' <=> \E h \in Held \union {f, g} : Starts(h)
    BY <1>1, <1>3, <1>7, FramesNext
  <2>2. Starts(f) <=> Starts(Top)
    BY <1>7 DEF SameStart
  <2>3. QED
    BY <1>2, <1>7, <2>1, <2>2
<1>8. QED
  BY <1>4, <1>5, <1>6, <1>7, RunKinds

-----------------------------------------------------------------------------
(* Who waits for ever.                                                     *)

\* Of the launchers the running call forks one at most, in raw_start.
LEMMA RunForks ==
  ASSUME TypeInv, Run
  PROVE  /\ outbox' = outbox
         /\ \A s \in Services :
              stage'[s] = stage[s] \/ (Update(s) /\ ReadyToStart(s) /\ RawStart(s))
<1> USE DEF TypeInv, DataTypes, LaunchTypeOK
<1>1. CASE UNCHANGED launchVars
  BY <1>1 DEF launchVars
<1>2. ASSUME NEW s \in Services, Update(s)
      PROVE  \/ UNCHANGED launchVars
             \/ ReadyToStart(s) /\ RawStart(s)
             \/ UNCHANGED <<stage, outbox>>
  BY <1>2 DEF Update, RawStart, RawStartFails, RawStop, BeginStart, BeginStop,
              UpdateIsIdle, Interrupt
<1>3. ASSUME NEW s \in Services, Update(s), ReadyToStart(s), RawStart(s)
      PROVE  /\ outbox' = outbox
             /\ \A r \in Services : stage'[r] = stage[r] \/ r = s
  BY <1>3 DEF RawStart, Fork
<1>4. UNCHANGED launchVars \/ \E s \in Services : Update(s)
  BY DEF Run, ServiceStep, CommandReturns, TargetNext, TargetEnds, StartDepends,
         StartDepended, StartTriesAfter, StartTriedAfter, StartAddedAfter, UpdateSelf,
         ReturnFromTail, StopNext, CascadeEnters, CascadeNext, FinishStartNext,
         FinishStartFails, FinishStartEnds, FinishStopNext, FinishStopEnds
<1>5. QED
  BY <1>1, <1>2, <1>3, <1>4

\* A dependency of a hopeless service is not ready.
LEMMA HopelessIsNotReady ==
  ASSUME NEW Z, Hopeless(Z), NEW z \in Z, Waits(z)
  PROVE  ~DependenciesReady(z)
<1>1. \A y \in Z : status[y] \in {"Starting", "Waiting"}
  BY DEF Hopeless, Stillborn, Waits
<1>2. ~Stillborn(z)
  BY DEF Stillborn, Waits
<1>3. PICK i \in DOMAIN deps[z] : deps[z][i].name \in Z
  BY <1>2 DEF Hopeless
<1>4. ~DependencyReady(deps[z][i])
  BY <1>1, <1>3 DEF DependencyReady, Included, Excluded
<1>5. QED
  BY <1>4 DEF DependenciesReady

\* A service whose fork has failed stays as it is through the running call.
LEMMA RunKeepsStillborn ==
  ASSUME TypeInv, FrameInv, Run, NEW z \in Services, Stillborn(z)
  PROVE  Stillborn(z)'
<1>1. status[z] = "Starting" /\ ~Alive(z) /\ outbox[z] = <<>>
  BY DEF Stillborn
<1>2. ~(Update(z) /\ ~UpdateIsIdle(z))
  BY <1>1, UpdateStarts DEF ReadyToStart
<1>3. status'[z] = "Starting"
  BY <1>1, <1>2, RunChanges
<1>4. outbox' = outbox /\ stage'[z] = stage[z]
  BY <1>1, RunForks DEF ReadyToStart
<1>5. QED
  BY <1>1, <1>3, <1>4 DEF Stillborn, Alive

\* So do the hopeless.
LEMMA RunKeepsHopeless ==
  ASSUME Acyclic, IgnoreClosed, TypeInv, FrameInv, CallInv, Run,
         NEW Z \in SUBSET Services, Hopeless(Z)
  PROVE  Hopeless(Z)'
<1>1. ASSUME NEW z \in Z, Stillborn(z) PROVE Stillborn(z)'
  BY <1>1, RunKeepsStillborn
<1>2. ASSUME NEW z \in Z, Waits(z), NEW i \in DOMAIN deps[z], deps[z][i].name \in Z
      PROVE  Waits(z)' /\ deps'[z] = deps[z]
  <2>1. status[z] = "Waiting" /\ ~InStart(z) /\ z \in Services
    BY <1>2 DEF Waits
  <2>2. ~(Update(z) /\ ~UpdateIsIdle(z))
    <3>1. ~ReadyToStart(z)
      BY <1>2, HopelessIsNotReady DEF ReadyToStart
    <3>2. QED
      BY <2>1, <3>1, UpdateStarts
  <2>3. stack # <<>> /\ CallTypes
    BY RunChanges DEF TypeInv
  <2>4. ~(Top.fn = "start" /\ Top.svc = z)
    BY <2>1, <2>3, TopFine
  <2>5. ~Excluded(z)
    BY <2>1 DEF Excluded
  <2>6. status'[z] = "Waiting" /\ deps'[z] = deps[z]
    BY <2>1, <2>2, <2>4, <2>5, RunChanges
  <2>7. ~InStart(z)'
    <3>1. ~Begins(z)
      BY <2>5 DEF Begins, WantsStart
    <3>2. QED
      BY <2>1, <2>4, <3>1, StartSet
  <2>8. QED
    BY <2>6, <2>7 DEF Waits
<1>3. QED
  BY <1>1, <1>2 DEF Hopeless

\* The same through the launchers' steps: it has none.
LEMMA LaunchKeepsStillborn ==
  ASSUME TypeInv, LauncherInv, (\E s \in Services : Launch(s)) \/ UNCHANGED vars,
         NEW z \in Services, Stillborn(z)
  PROVE  Stillborn(z)'
<1>1. status' = status
  BY LaunchChanges
<1>2. CASE UNCHANGED vars
  BY <1>1, <1>2 DEF Stillborn, vars, launchVars, Alive
<1>3. ASSUME NEW s \in Services, Launch(s) PROVE Stillborn(z)'
  <2>1. Alive(s) /\ (Silent(s) \/ Announces(s) \/ Leaves(s))
    BY <1>3, LaunchKinds DEF Launch, LauncherInv
  <2>2. s # z
    BY <2>1 DEF Stillborn
  <2>3. stage'[z] = stage[z] /\ outbox'[z] = outbox[z]
    BY <2>1, <2>2 DEF Silent, Announces, Leaves, EnterAnnounced, Enter, Write, TypeInv,
                      DataTypes, LaunchTypeOK
  <2>4. QED
    BY <1>1, <2>3 DEF Stillborn, Alive
<1>4. QED
  BY <1>2, <1>3

\* So do the hopeless.
LEMMA LaunchKeepsHopeless ==
  ASSUME TypeInv, LauncherInv, (\E s \in Services : Launch(s)) \/ UNCHANGED vars,
         NEW Z \in SUBSET Services, Hopeless(Z)
  PROVE  Hopeless(Z)'
<1>1. UNCHANGED <<deps, status, stack>>
  BY LaunchChanges
<1>2. \A z : Waits(z)' <=> Waits(z)
  BY <1>1 DEF Waits, InStart
<1>3. ASSUME NEW z \in Z, Stillborn(z) PROVE Stillborn(z)'
  BY <1>3, LaunchKeepsStillborn
<1>4. QED
  BY <1>1, <1>2, <1>3 DEF Hopeless

\* What requests and reports do to the statuses and to the launchers.
LEMMA FirstChanges ==
  ASSUME TypeInv, LockInv, NEW z \in Services,
         Boot \/ (\E c \in Clients : Request(c)) \/ (\E s \in Services : Deliver(s))
  PROVE  /\ stage' = stage
         /\ status'[z] = "Waiting" => status[z] = "Waiting"
         /\ \/ status'[z] = status[z] /\ outbox'[z] = outbox[z]
            \/ outbox'[z] = outbox[z] /\ status[z] = "Failed" /\ status'[z] = "Inactive"
            \/ Deliver(z)
<1> USE DEF TypeInv, DataTypes, LaunchTypeOK
<1>1. CASE Boot \/ \E c \in Clients : Request(c)
  <2>1. UNCHANGED launchVars
    BY <1>1 DEF Boot, Request, StartService, StopService, CascadeStopService, Refuse,
                SetTarget
  <2>2. status' = status \/ \E s \in Services : Forgive(s)
    BY <1>1 DEF Boot, Request, StartService, StopService, CascadeStopService, Refuse,
                SetTarget, serviceVars
  <2>3. \/ status'[z] = status[z]
        \/ status[z] = "Failed" /\ status'[z] = "Inactive"
    BY <2>2 DEF Forgive
  <2>4. QED
    BY <2>1, <2>3 DEF launchVars
<1>2. ASSUME NEW s \in Services, Deliver(s)
      PROVE  /\ stage' = stage
             /\ status'[z] = "Waiting" => status[z] = "Waiting"
             /\ \/ status'[z] = status[z] /\ outbox'[z] = outbox[z]
                \/ Deliver(z)
  <2>1. stage' = stage /\ outbox' = [outbox EXCEPT ![s] = Tail(@)]
    BY <1>2 DEF Deliver
  <2>2. \/ FinishStartService(s) \/ ServiceFinishes(s) \/ FailService(s)
        \/ FinishStopService(s)
    BY <1>2, Reports
  <2>3. \E st \in Status \ {"Waiting"} :
          status' = status \/ status' = [status EXCEPT ![s] = st] \/ Forgive(s)
    BY <2>2 DEF FinishStartService, ServiceFinishes, FailService, FinishStopService,
                SetStatus, Status
  <2>4. /\ status'[z] = "Waiting" => status[z] = "Waiting"
        /\ z # s => status'[z] = status[z]
    BY <2>3 DEF Forgive
  <2>5. QED
    BY <1>2, <2>1, <2>4
<1>3. QED
  BY <1>1, <1>2

\* Through requests and reports: none is about the hopeless.
LEMMA FirstKeepsHopeless ==
  ASSUME TypeInv, LockInv, LauncherInv,
         Boot \/ (\E c \in Clients : Request(c)) \/ (\E s \in Services : Deliver(s)),
         NEW Z \in SUBSET Services, Hopeless(Z)
  PROVE  Hopeless(Z)'
<1>1. deps' = deps /\ \A z : ~InStart(z)'
  <2>1. deps' = deps /\ \A k \in DOMAIN stack' : First(stack'[k])
    BY FirstCalls
  <2>2. QED
    BY <2>1 DEF InStart, First
<1>2. ASSUME NEW z \in Z, status[z] \in {"Waiting", "Starting"}, outbox[z] = <<>>
      PROVE  status'[z] = status[z] /\ outbox'[z] = outbox[z] /\ stage'[z] = stage[z]
  <2>1. ~Deliver(z)
    BY <1>2 DEF Deliver
  <2>2. QED
    BY <1>2, <2>1, FirstChanges
<1>3. ASSUME NEW z \in Z, Waits(z) PROVE Waits(z)'
  <2>1. status[z] = "Waiting" /\ outbox[z] = <<>>
    BY <1>3 DEF Waits, LauncherInv, NoStrayLauncher, Up
  <2>2. QED
    BY <1>1, <1>2, <2>1 DEF Waits
<1>4. ASSUME NEW z \in Z, Stillborn(z) PROVE Stillborn(z)'
  BY <1>2, <1>4 DEF Stillborn, Alive
<1>5. QED
  BY <1>1, <1>3, <1>4 DEF Hopeless

\* Nobody who waits for ever is helped.
LEMMA DoomedStays ==
  ASSUME Acyclic, IgnoreClosed, TypeInv, LockInv, LauncherInv, FrameInv, CallInv,
         [Next]_vars, NEW s, Doomed(s)
  PROVE  Doomed(s)'
<1>1. PICK Z \in SUBSET Services : s \in Z /\ Hopeless(Z)
  BY DEF Doomed
<1>2. Hopeless(Z)'
  BY <1>1, RunKeepsHopeless, LaunchKeepsHopeless, FirstKeepsHopeless, StepKinds
<1>3. QED
  BY <1>1, <1>2 DEF Doomed

\* Who waits for one of them, and a service without a launcher, is one of them.
LEMMA DoomedNext ==
  ASSUME NEW s \in Services,
         Stillborn(s)' \/ (Waits(s)' /\ \E i \in DOMAIN deps'[s] : Doomed(deps[s][i].name)')
  PROVE  Doomed(s)'
<1>1. CASE Stillborn(s)'
  <2>1. Hopeless({s})'
    BY <1>1 DEF Hopeless
  <2>2. QED
    BY <2>1 DEF Doomed
<1>2. ASSUME Waits(s)', NEW i \in DOMAIN deps'[s], Doomed(deps[s][i].name)' PROVE Doomed(s)'
  <2>1. PICK Z \in SUBSET Services : deps'[s][i].name \in Z /\ Hopeless(Z)'
    BY <1>2 DEF Doomed
  <2>2. Hopeless(Z \union {s})'
    BY <1>2, <2>1 DEF Hopeless
  <2>3. QED
    BY <2>2 DEF Doomed
<1>3. QED
  BY <1>1, <1>2

-----------------------------------------------------------------------------
(* Errors.                                                                 *)

\* The call that goes on after a return is the one that waited for it.
LEMMA Resumed ==
  ASSUME CallTypes, CallInv, stack # <<>>, NEW v, ReturnWith(v), stack' # <<>>
  PROVE  \E b \in Held : b = Top' /\ Linked(Top, b)
<1>1. PICK r \in Seq(GoodFrame) : r = Tail(stack)
  <2>1. stack \in Seq(GoodFrame) /\ stack # <<>>
    BY DEF CallTypes
  <2>2. Tail(stack) \in Seq(GoodFrame)
    BY <2>1
  <2>3. QED
    BY <2>2
<1>2. stack' = r /\ r # <<>>
  BY <1>1 DEF ReturnWith
<1>3. Len(r) >= 1 /\ Len(stack) = Len(r) + 1 /\ r[1] = stack[2] /\ Head(r) = r[1]
      /\ 2 \in 2..Len(stack) /\ 2 \in DOMAIN stack
  BY <1>1, <1>2 DEF CallTypes
<1>4. Top' = stack[2]
  BY <1>2, <1>3 DEF Top
<1>5. stack[2] \in Held /\ Linked(Top, stack[2])
  BY <1>3, TopFine DEF Held, Below1
<1>6. QED
  BY <1>4, <1>5

\* What returns an error is about a service that will wait for ever, and, if it is
\* about the service of a call at its tail, one whose fork has failed.
LEMMA ReturnsErr ==
  ASSUME Acyclic, IgnoreClosed, AllInstalled, TypeInv, LockInv, LauncherInv, FrameInv,
         CallInv, ErrorInv, Run, Errs, \E v : ReturnWith(v)
  PROVE  \/ Top.fn = "finishStart"
         \/ \E s \in Services : /\ Top.svc = s /\ Doomed(s)'
                                /\ Top.fn \in {"update", "stop"} => Stillborn(s)'
<1>1. stack # <<>> /\ CallTypes
  BY RunChanges DEF TypeInv
<1>2. PICK s \in Services :
        \/ Update(s) /\ ReadyToStart(s) /\ RawStartFails(s)
        \/ StartDepends(s) /\ DependAt(s).name \notin Known /\ ~DependAt(s).optional
        \/ /\ StartDepended(s) /\ ret = "err" /\ ~DependAt(s).optional
           /\ UNCHANGED <<deps, dependedBy>>
        \/ ReturnFromTail(s) /\ ret = "err"
        \/ FinishStartFails(s)
  BY DEF Errs
<1>3. CASE Update(s) /\ ReadyToStart(s) /\ RawStartFails(s)
  <2>1. Top.svc = s /\ status[s] = "Waiting"
    BY <1>3 DEF Update, Runs, ReadyToStart
  <2>2. ~Alive(s) /\ outbox[s] = <<>>
    BY <2>1 DEF LauncherInv, NoStrayLauncher, Up
  <2>3. Stillborn(s)'
    BY <1>3, <2>2 DEF RawStartFails, SetStatus, Stillborn, launchVars, Alive, TypeInv, DataTypes
  <2>4. Doomed(s)'
    BY <2>3, DoomedNext
  <2>5. QED
    BY <2>1, <2>3, <2>4
<1>4. CASE StartDepends(s) /\ DependAt(s).name \notin Known /\ ~DependAt(s).optional
  <2>1. Top.i \in DOMAIN Depend[s] /\ Top.svc = s
    <3>1. Top \in GoodFrame /\ Top.fn = "start"
      BY <1>1, <1>4, Frames DEF StartDepends, Runs
    <3>2. Top \in GoodServiceFrame
      BY <3>1 DEF GoodFrame, TargetFrame, CommandFrame
    <3>3. Top.i \in Nat /\ Top.i >= 1 /\ Depend[s] \in Seq(Edge)
      BY <3>2, ServiceAssumption DEF GoodServiceFrame, ServiceFrame
    <3>4. QED
      BY <1>4, <3>3 DEF StartDepends, AtDepend, Runs
  <2>2. DependAt(s).name \in Required(s)
    BY <1>4, <2>1 DEF DependAt, Required
  <2>3. QED
    BY <1>4, <2>2 DEF AllInstalled
<1>5. CASE /\ StartDepended(s) /\ ret = "err" /\ ~DependAt(s).optional
           /\ UNCHANGED <<deps, dependedBy>>
  <2>1. /\ Top.svc = s /\ Top.fn = "start" /\ Top.at = "depended" /\ status' = status
        /\ Top \in GoodServiceFrame
    <3>1. Top \in GoodFrame
      BY <1>1, Frames
    <3>2. QED
      BY <1>5, <3>1 DEF StartDepended, Runs, serviceVars, GoodFrame, TargetFrame, CommandFrame
  <2>2. PICK d, i : i = Top.i /\ d = Depend[s][i]
    OBVIOUS
  <2>3. /\ i \in DOMAIN Depend[s] /\ i \in Nat /\ ~d.optional /\ i < i + 1
    <3>1. i \in Nat /\ i >= 1 /\ i <= Len(Depend[s]) /\ Depend[s] \in Seq(Edge)
      BY <2>1, <2>2, ServiceAssumption DEF GoodServiceFrame, ServiceFrame
    <3>2. QED
      BY <1>5, <2>2, <3>1 DEF DependAt
  <2>4. status[s] = "Waiting" /\ Recorded(s, d)
    <3>1. Fine(Top)
      BY <1>1, TopFine
    <3>2. Has(s, i + 1) /\ status[s] = "Waiting"
      BY <2>1, <2>2, <3>1 DEF Fine
    <3>3. QED
      BY <2>2, <2>3, <3>2 DEF Has
  <2>5. PICK n \in DOMAIN deps[s] : deps[s][n] = d
    BY <2>4 DEF Recorded
  <2>6. Doomed(d.name)'
    <3>1. Doomed(d.name)
      BY <1>1, <1>5, <2>1, <2>2 DEF ErrorInv
    <3>2. [Next]_vars
      BY DEF Next
    <3>3. QED
      BY <3>1, <3>2, DoomedStays
  <2>7. ~InStart(s)'
    <3>1. InStart(s)' <=> \E f \in {stack'[k] : k \in DOMAIN stack'} : f.fn = "start" /\ f.svc = s
      BY DEF InStart
    <3>2. {stack'[k] : k \in DOMAIN stack'} = Held
      BY <1>1, FramesNext
    <3>3. ASSUME NEW b \in Held, b.fn = "start", b.svc = s PROVE FALSE
      <4>1. Top \notin TargetFrame \union CommandFrame
        BY <2>1 DEF TargetFrame, CommandFrame
      <4>2. Top = Call("update", s)
        BY <1>1, <2>1, <3>3, <4>1, OthersStart
      <4>3. QED
        BY <2>1, <4>2 DEF Call
    <3>4. QED
      BY <3>1, <3>2, <3>3
  <2>8. Waits(s)' /\ n \in DOMAIN deps'[s] /\ Doomed(deps[s][n].name)'
    BY <1>5, <2>1, <2>4, <2>5, <2>6, <2>7 DEF Waits
  <2>9. Doomed(s)'
    BY <2>8, DoomedNext
  <2>10. QED
    BY <2>1, <2>9
<1>6. CASE ReturnFromTail(s) /\ ret = "err"
  <2>1. Top.svc = s /\ Top.fn \in {"start", "stop", "cascadeStop"} /\ Top.at = "tail"
    BY <1>6 DEF ReturnFromTail, Runs
  <2>2. Stillborn(s)'
    BY <1>1, <1>6, <2>1, RunKeepsStillborn DEF ErrorInv
  <2>3. Doomed(s)'
    BY <2>2, DoomedNext
  <2>4. QED
    BY <2>1, <2>2, <2>3
<1>7. CASE FinishStartFails(s)
  BY <1>7 DEF FinishStartFails, Runs
<1>8. QED
  BY <1>2, <1>3, <1>4, <1>5, <1>6, <1>7

\* Every step keeps what an error means.
LEMMA NextErrorInv ==
  ASSUME Acyclic, IgnoreClosed, AllInstalled, TypeInv, LockInv, LauncherInv, FrameInv,
         CallInv, ErrorInv, [Next]_vars
  PROVE  ErrorInv'
<1> SUFFICES ASSUME stack' # <<>>, ret' = "err"
             PROVE  /\ Top'.fn = "start" /\ Top'.at = "depended" =>
                         Doomed(Depend[Top.svc][Top.i].name)'
                    /\ Top'.fn \in {"start", "stop", "cascadeStop"} /\ Top'.at = "tail" =>
                         Stillborn(Top.svc)'
  BY DEF ErrorInv
<1>1. CASE Run
  <2>0. stack # <<>> /\ CallTypes
    BY <1>1, RunChanges DEF TypeInv
  <2>1. CASE Returns
    <3>1. PICK v : ReturnWith(v) /\ (v = "err" => Errs)
      BY <2>1 DEF Returns
    <3>2. Errs
      BY <3>1 DEF ReturnWith
    <3>3. PICK b \in Held : b = Top' /\ Linked(Top, b)
      BY <2>0, <3>1, Resumed
    <3>4. CASE Top.fn = "finishStart"
      <4>1. Over(Top, b)
        BY <2>0, TopFine
      <4>2. b.fn # "start"
        BY <3>4, <4>1 DEF Over, Climbs, Call
      <4>3. ~(b.fn \in {"stop", "cascadeStop"} /\ b.at = "tail")
        BY <3>3, <3>4 DEF Linked
      <4>4. QED
        BY <3>3, <4>2, <4>3
    <3>5. ASSUME NEW s \in Services, Top.svc = s, Doomed(s)',
                 Top.fn \in {"update", "stop"} => Stillborn(s)'
          PROVE  /\ b.fn = "start" /\ b.at = "depended" => Doomed(Depend[b.svc][b.i].name)'
                 /\ b.fn \in {"start", "stop", "cascadeStop"} /\ b.at = "tail" =>
                      Stillborn(b.svc)'
      BY <3>3, <3>5 DEF Linked
    <3>6. CASE \E s \in Services : /\ Top.svc = s /\ Doomed(s)'
                                   /\ Top.fn \in {"update", "stop"} => Stillborn(s)'
      <4>1. /\ b.fn = "start" /\ b.at = "depended" => Doomed(Depend[b.svc][b.i].name)'
            /\ b.fn \in {"start", "stop", "cascadeStop"} /\ b.at = "tail" => Stillborn(b.svc)'
        BY <3>5, <3>6
      <4>2. QED
        BY <3>3, <4>1 DEF Stillborn, Doomed
    <3>7. QED
      BY <1>1, <3>1, <3>2, <3>4, <3>6, ReturnsErr
  <2>2. ASSUME NEW f, Continue(f), f.at = "next" PROVE Top'.at = "next"
    BY <2>2 DEF Continue, Top
  <2>3. ASSUME NEW f, NEW g, Invoke(f, g), g.fn \in {"update", "cascadeStop"},
               g.fn = "cascadeStop" => g.at = "enter"
        PROVE  Top'.fn \in {"update", "cascadeStop"} /\ (Top'.fn = "cascadeStop" => Top'.at = "enter")
    BY <2>3 DEF Invoke, Top
  <2>4. QED
    BY <1>1, <2>1, <2>2, <2>3, RunKinds
<1>2. CASE Boot \/ (\E c \in Clients : Request(c)) \/ (\E s \in Services : Deliver(s))
  BY <1>2, FirstCalls
<1>3. CASE (\E s \in Services : Launch(s)) \/ UNCHANGED vars
  <2>1. UNCHANGED <<stack, ret>>
    BY <1>3, LaunchChanges
  <2>2. PICK t : t = Top
    OBVIOUS
  <2>3. Top' = t /\ t \in GoodFrame /\ stack # <<>> /\ ret = "err"
    BY <2>1, <2>2, Frames DEF Top, TypeInv
  <2>4. t.fn = "start" /\ t.at = "depended" => Doomed(Depend[t.svc][t.i].name)'
    <3>1. PICK d : d = Depend[t.svc][t.i].name
      OBVIOUS
    <3>2. t.fn = "start" /\ t.at = "depended" => Doomed(d)
      BY <2>2, <2>3, <3>1 DEF ErrorInv
    <3>3. Doomed(d) => Doomed(d)'
      BY DoomedStays
    <3>4. QED
      BY <3>1, <3>2, <3>3
  <2>5. t.fn \in {"start", "stop", "cascadeStop"} /\ t.at = "tail" => Stillborn(t.svc)'
    <3>1. SUFFICES ASSUME t.fn \in {"start", "stop", "cascadeStop"}, t.at = "tail"
                   PROVE  Stillborn(t.svc)'
      OBVIOUS
    <3>2. t.svc \in Services /\ Stillborn(t.svc)
      BY <2>2, <2>3, <3>1, ServiceOf DEF ErrorInv
    <3>3. QED
      BY <1>3, <3>2, LaunchKeepsStillborn
  <2>6. QED
    BY <2>3, <2>4, <2>5 DEF Stillborn, Doomed
<1>4. QED
  BY <1>1, <1>2, <1>3, StepKinds

-----------------------------------------------------------------------------
(* Services.                                                               *)

\* What update() of a service does to it.
LEMMA UpdateChanges ==
  ASSUME TypeInv, NEW s \in Services, Update(s), ~UpdateIsIdle(s)
  PROVE  \/ /\ ReadyToStart(s) /\ status[s] = "Waiting" /\ status'[s] = "Starting"
            /\ deps'[s] = deps[s]
         \/ /\ ReadyToStop(s) /\ status[s] = "StopWaiting" /\ deps'[s] = deps[s]
            /\ status'[s] \in {"Stopping", "FailStopping"} /\ stage'[s] = stage[s]
         \/ Begins(s) /\ Excluded(s) /\ status'[s] = "Waiting"
         \/ /\ WantsStop(s) /\ Included(s) /\ status'[s] = "StopWaiting" /\ deps'[s] = deps[s]
            /\ stage'[s] = stage[s]
<1> USE DEF TypeInv, DataTypes
<1>1. CASE ReadyToStart(s) /\ (RawStart(s) \/ RawStartFails(s))
  BY <1>1 DEF RawStart, RawStartFails, ReadyToStart, SetStatus, edgeVars
<1>2. CASE ReadyToStop(s) /\ RawStop(s)
  BY <1>2 DEF RawStop, ReadyToStop, SetStatus, edgeVars, Interrupt
<1>3. CASE WantsStart(s) /\ BeginStart(s)
  BY <1>3 DEF Begins, BeginStart, WantsStart, SetStatus
<1>4. CASE WantsStop(s) /\ BeginStop(s)
  BY <1>4 DEF BeginStop, WantsStop, SetStatus, edgeVars, launchVars
<1>5. QED
  BY <1>1, <1>2, <1>3, <1>4 DEF Update

\* A list of edges that is the same, or has the mandatory ones it had, is as
\* complete as it was.
LEMMA StaysComplete ==
  ASSUME NEW s \in Services, Complete(s),
         \/ deps'[s] = deps[s]
         \/ \A e \in Edge : ~e.optional /\ Recorded(s, e) => Recorded(s, e)'
  PROVE  Complete(s)'
<1>1. \A j \in DOMAIN Depend[s] : Depend[s][j] \in Edge
  BY ServiceAssumption
<1>2. QED
  BY <1>1 DEF Complete, Has, Recorded

\* start() gives up because of an error, or ends with all edges recorded.
LEMMA StartEnds ==
  ASSUME Acyclic, IgnoreClosed, AllInstalled, TypeInv, LockInv, LauncherInv, FrameInv,
         CallInv, ErrorInv, Run, NEW s \in Services, Top.fn = "start", Top.svc = s, Returns,
         status'[s] = "Waiting", ~InStart(s)'
  PROVE  Complete(s)' \/ \E i \in DOMAIN deps'[s] : Doomed(deps[s][i].name)'
<1>1. stack # <<>> /\ CallTypes
  BY RunChanges DEF TypeInv
<1>2. CASE \E r \in Services : ReturnFromTail(r)
  <2>1. Top.at = "tail" /\ deps' = deps
    BY <1>2 DEF ReturnFromTail, Runs, edgeVars
  <2>2. Complete(s)
    BY <1>1, <2>1, TopFine DEF Fine
  <2>3. QED
    BY <2>1, <2>2, StaysComplete
<1>3. CASE Errs /\ ~\E r \in Services : ReturnFromTail(r)
  <2>1. /\ Top \in GoodServiceFrame /\ Top.i \in Nat /\ Top.i >= 1
        /\ Depend[s] \in Seq(Edge)
    <3>1. Top \in GoodServiceFrame
      BY <1>1, Frames DEF GoodFrame, TargetFrame, CommandFrame
    <3>2. QED
      BY <3>1, ServiceAssumption DEF GoodServiceFrame, ServiceFrame
  <2>2. \/ StartDepends(s) /\ DependAt(s).name \notin Known /\ ~DependAt(s).optional
        \/ /\ StartDepended(s) /\ ret = "err" /\ ~DependAt(s).optional
           /\ UNCHANGED <<deps, dependedBy>>
    BY <1>3 DEF Errs, Update, StartDepends, StartDepended, FinishStartFails, Runs
  <2>3. CASE StartDepends(s) /\ DependAt(s).name \notin Known /\ ~DependAt(s).optional
    <3>1. Top.i \in DOMAIN Depend[s]
      BY <2>1, <2>3 DEF StartDepends, AtDepend
    <3>2. DependAt(s).name \in Required(s)
      BY <2>3, <3>1 DEF DependAt, Required
    <3>3. QED
      BY <2>3, <3>2 DEF AllInstalled
  <2>4. CASE /\ StartDepended(s) /\ ret = "err" /\ ~DependAt(s).optional
             /\ UNCHANGED <<deps, dependedBy>>
    <3>1. PICK d, i : i = Top.i /\ d = Depend[s][i]
      OBVIOUS
    <3>2. Top.at = "depended" /\ i <= Len(Depend[s])
      BY <2>1, <2>4, <3>1 DEF StartDepended, Runs, GoodServiceFrame
    <3>3. i \in DOMAIN Depend[s] /\ i \in Nat /\ ~d.optional /\ i < i + 1
      BY <2>1, <2>4, <3>1, <3>2 DEF DependAt
    <3>4. Recorded(s, d)
      <4>1. Has(s, i + 1)
        BY <1>1, <3>1, <3>2, TopFine DEF Fine
      <4>2. QED
        BY <3>1, <3>3, <4>1 DEF Has
    <3>5. Doomed(d.name)'
      <4>1. Doomed(d.name)
        BY <1>1, <2>4, <3>1, <3>2 DEF ErrorInv
      <4>2. [Next]_vars
        BY DEF Next
      <4>3. QED
        BY <4>1, <4>2, DoomedStays
    <3>6. PICK n \in DOMAIN deps[s] : deps[s][n] = d
      BY <3>4 DEF Recorded
    <3>7. n \in DOMAIN deps'[s] /\ Doomed(deps[s][n].name)'
      BY <2>4, <3>5, <3>6
    <3>8. QED
      BY <3>7
  <2>5. QED
    BY <2>2, <2>3, <2>4
<1>4. QED
  BY <1>2, <1>3 DEF Returns

\* Every step keeps what is said of the services that wait.
LEMMA NextWaitInv ==
  ASSUME Acyclic, IgnoreClosed, AllInstalled, TypeInv, LockInv, LauncherInv, FrameInv,
         CallInv, ErrorInv, WaitInv, [Next]_vars
  PROVE  WaitInv'
<1> SUFFICES ASSUME NEW s \in Services, Waits(s)'
             PROVE  Complete(s)' \/ \E i \in DOMAIN deps'[s] : Doomed(deps[s][i].name)'
  BY DEF WaitInv
<1>1. ASSUME Waits(s), deps'[s] = deps[s]
      PROVE  Complete(s)' \/ \E i \in DOMAIN deps'[s] : Doomed(deps[s][i].name)'
  <2>1. CASE Complete(s)
    BY <1>1, <2>1, StaysComplete
  <2>2. ASSUME NEW i \in DOMAIN deps[s], Doomed(deps[s][i].name)
        PROVE  i \in DOMAIN deps'[s] /\ Doomed(deps[s][i].name)'
    <3>1. PICK d : d = deps[s][i].name
      OBVIOUS
    <3>2. Doomed(d)'
      BY <2>2, <3>1, DoomedStays
    <3>3. QED
      BY <1>1, <3>1, <3>2
  <2>3. QED
    BY <1>1, <2>1, <2>2 DEF WaitInv
<1>2. CASE Run
  <2>1. stack # <<>> /\ CallTypes
    BY <1>2, RunChanges DEF TypeInv
  <2>2. status'[s] = "Waiting" /\ ~InStart(s)'
    BY DEF Waits
  <2>3. ~(Update(s) /\ ~UpdateIsIdle(s))
    <3>1. ~Begins(s)
      <4>1. SUFFICES ASSUME Begins(s) PROVE InStart(s)'
        BY <2>2
      <4>2. PICK f : f = Call("start", s)
        OBVIOUS
      <4>3. {stack'[k] : k \in DOMAIN stack'} = Held \union {f}
        BY <2>1, <4>1, <4>2, FramesNext DEF Begins, BeginStart
      <4>4. f.fn = "start" /\ f.svc = s
        BY <4>2 DEF Call
      <4>5. QED
        BY <4>3, <4>4 DEF InStart
    <3>2. QED
      BY <2>2, <3>1, UpdateChanges
  <2>4. status[s] = "Waiting"
    BY <1>2, <2>2, <2>3, RunChanges
  <2>5. CASE ~InStart(s)
    <3>1. ~(Top.fn = "start" /\ Top.svc = s) /\ ~Excluded(s)
      BY <2>1, <2>4, <2>5, TopFine DEF Excluded
    <3>2. deps'[s] = deps[s]
      BY <1>2, <2>3, <3>1, RunChanges
    <3>3. QED
      BY <1>1, <2>4, <2>5, <3>2 DEF Waits
  <2>6. CASE InStart(s)
    <3>1. Top.fn = "start" /\ Top.svc = s /\ Returns
      BY <1>2, <2>2, <2>6, StartSet
    <3>2. QED
      BY <1>2, <2>2, <3>1, StartEnds
  <2>7. QED
    BY <2>5, <2>6
<1>3. CASE Boot \/ (\E c \in Clients : Request(c)) \/ (\E r \in Services : Deliver(r))
  <2>1. stack = <<>> /\ deps' = deps
    BY <1>3, FirstCalls
  <2>2. status[s] = "Waiting"
    BY <1>3, FirstChanges DEF Waits
  <2>3. Waits(s)
    BY <2>1, <2>2 DEF Waits, InStart
  <2>4. QED
    BY <1>1, <2>1, <2>3
<1>4. CASE (\E r \in Services : Launch(r)) \/ UNCHANGED vars
  <2>1. UNCHANGED <<status, deps, stack>>
    BY <1>4, LaunchChanges
  <2>2. Waits(s)
    BY <2>1 DEF Waits, InStart
  <2>3. QED
    BY <1>1, <2>1, <2>2
<1>5. QED
  BY <1>2, <1>3, <1>4, StepKinds

\* A service that is ready to start has recorded every mandatory line.
LEMMA ReadyIsComplete ==
  ASSUME Acyclic, IgnoreClosed, TypeInv, FrameInv, CallInv, WaitInv,
         NEW s \in Services, Update(s), ReadyToStart(s)
  PROVE  Complete(s)
<1>1. /\ stack # <<>> /\ CallTypes /\ Top.fn = "update" /\ Top.svc = s
      /\ status[s] = "Waiting" /\ DependenciesReady(s)
  BY DEF Update, Runs, TypeInv, ReadyToStart
<1>2. CASE InStart(s)
  <2>1. PICK b \in Held : b.fn = "start" /\ b.svc = s
    BY <1>1, <1>2, TopFine
  <2>2. Top \notin TargetFrame \union CommandFrame
    BY <1>1 DEF TargetFrame, CommandFrame
  <2>3. b.at = "tail"
    BY <1>1, <2>1, <2>2, OthersStart
  <2>4. Fine(b)
    BY <1>1, <2>1, TopFine
  <2>5. QED
    BY <2>1, <2>3, <2>4 DEF Fine
<1>3. CASE ~InStart(s)
  <2>1. SUFFICES ASSUME NEW i \in DOMAIN deps[s], Doomed(deps[s][i].name) PROVE FALSE
    BY <1>1, <1>3 DEF WaitInv, Waits
  <2>2. PICK Z \in SUBSET Services : deps[s][i].name \in Z /\ Hopeless(Z)
    BY <2>1 DEF Doomed
  <2>3. status[deps[s][i].name] \in {"Starting", "Waiting"}
    BY <2>2 DEF Hopeless, Stillborn, Waits
  <2>4. DependencyReady(deps[s][i])
    BY <1>1 DEF DependenciesReady
  <2>5. QED
    BY <2>3, <2>4 DEF DependencyReady, Included, Excluded
<1>4. QED
  BY <1>2, <1>3

\* Every step keeps what is said of the services that are up.
LEMMA NextUpInv ==
  ASSUME Acyclic, IgnoreClosed, TypeInv, LockInv, LauncherInv, FrameInv, CallInv, WaitInv,
         UpInv, [Next]_vars
  PROVE  UpInv'
<1> SUFFICES ASSUME NEW s \in Services, Up(s)' PROVE Complete(s)'
  BY DEF UpInv
<1>1. ASSUME Up(s), deps'[s] = deps[s] PROVE Complete(s)'
  BY <1>1, StaysComplete DEF UpInv
<1>2. CASE Run
  <2>1. stack # <<>> /\ CallTypes
    BY <1>2, RunChanges DEF TypeInv
  <2>2. CASE status'[s] = status[s] /\ deps'[s] = deps[s]
    BY <1>1, <2>2 DEF Up
  <2>3. CASE Update(s) /\ ~UpdateIsIdle(s)
    <3>1. CASE ReadyToStart(s) /\ deps'[s] = deps[s]
      BY <2>3, <3>1, ReadyIsComplete, StaysComplete
    <3>2. CASE ~ReadyToStart(s)
      <4>1. status[s] \in {"StopWaiting", "Running"} /\ deps'[s] = deps[s]
        BY <2>3, <3>2, UpdateChanges DEF Up, Included
      <4>2. QED
        BY <1>1, <4>1 DEF Up
    <3>3. ReadyToStart(s) => deps'[s] = deps[s]
      BY <2>3, UpdateChanges DEF ReadyToStart, ReadyToStop, Excluded, Included
    <3>4. QED
      BY <3>1, <3>2, <3>3
  <2>4. CASE Top.svc = s /\ Top.fn = "start" /\ Top.at # "tail" /\ status' = status
    BY <2>1, <2>4, TopFine DEF Fine, Up
  <2>5. CASE Excluded(s) /\ status' = status
    BY <2>5 DEF Excluded, Up
  <2>6. QED
    BY <1>2, <2>2, <2>3, <2>4, <2>5, RunChanges
<1>3. CASE Boot \/ (\E c \in Clients : Request(c)) \/ (\E r \in Services : Deliver(r))
  <2>1. deps' = deps
    BY <1>3, FirstCalls
  <2>2. Up(s)
    <3>1. CASE status'[s] = status[s]
      BY <3>1 DEF Up
    <3>2. CASE status'[s] = "Inactive"
      BY <3>2 DEF Up
    <3>3. CASE Deliver(s)
      <4>1. outbox[s] # <<>>
        BY <3>3 DEF Deliver
      <4>2. QED
        BY <4>1 DEF LauncherInv, NoStrayLauncher
    <3>4. QED
      BY <1>3, <3>1, <3>2, <3>3, FirstChanges
  <2>3. QED
    BY <1>1, <2>1, <2>2
<1>4. CASE (\E r \in Services : Launch(r)) \/ UNCHANGED vars
  BY <1>1, <1>4, LaunchChanges DEF Up
<1>5. QED
  BY <1>2, <1>3, <1>4, StepKinds

\* Every step keeps what announces that a service runs.
LEMMA NextNewsInv ==
  ASSUME TypeInv, LockInv, LauncherInv, FrameInv, NewsInv, [Next]_vars
  PROVE  NewsInv'
<1> USE DEF TypeInv, DataTypes, LaunchTypeOK
<1> DEFINE News(s) == stage[s] = "begin" \/ FinstartUnread(s)
<1> SUFFICES ASSUME NEW s \in Services, News(s)' PROVE status'[s] = "Starting"
  BY DEF NewsInv
<1>1. ASSUME News(s), status'[s] = status[s] PROVE status'[s] = "Starting"
  BY <1>1 DEF NewsInv
<1>2. CASE Run
  <2>1. CASE Update(s) /\ ReadyToStart(s) /\ RawStart(s)
    BY <2>1 DEF RawStart, SetStatus
  <2>2. CASE stage'[s] = stage[s]
    <3>1. News(s)
      BY <1>2, <2>2, RunForks DEF FinstartUnread
    <3>2. status[s] = "Starting"
      BY <3>1 DEF NewsInv
    <3>3. ~(Update(s) /\ ~UpdateIsIdle(s))
      BY <3>2, UpdateStarts DEF ReadyToStart
    <3>4. QED
      BY <1>2, <3>2, <3>3, RunChanges
  <2>3. QED
    BY <1>2, <2>1, <2>2, RunForks
<1>3. CASE Boot \/ (\E c \in Clients : Request(c)) \/ (\E r \in Services : Deliver(r))
  <2>1. CASE Deliver(s)
    <3>1. stage' = stage /\ outbox' = [outbox EXCEPT ![s] = Tail(@)] /\ outbox[s] # <<>>
      BY <2>1 DEF Deliver
    <3>2. stage[s] # "begin"
      BY <3>1 DEF LockInv, Unlocked
    <3>3. outbox'[s] = Tail(outbox[s]) /\ outbox[s] \in Seq(Message)
      BY <3>1
    <3>4. FinstartUnread(s)'
      BY <3>1, <3>2
    <3>5. Tail(outbox[s]) # <<>> /\ Tail(outbox[s])[1] = "finstart"
      BY <3>3, <3>4 DEF FinstartUnread
    <3>6. PICK q \in Seq(Message) : q = outbox[s]
      BY <3>3
    <3>7. 2 \in DOMAIN q /\ q[2] = "finstart"
      BY <3>1, <3>5, <3>6
    <3>8. QED
      BY <3>6, <3>7 DEF LockInv, Unlocked
  <2>2. CASE ~Deliver(s)
    <3>1. News(s) /\ (status'[s] = status[s] \/ status[s] = "Failed")
      BY <1>3, <2>2, FirstChanges DEF FinstartUnread
    <3>2. status[s] = "Starting"
      BY <3>1 DEF NewsInv
    <3>3. QED
      BY <3>1, <3>2
  <2>3. QED
    BY <2>1, <2>2
<1>4. ASSUME NEW r \in Services, Launch(r) PROVE status'[s] = "Starting"
  <2>1. status' = status
    BY <1>4, LaunchChanges
  <2>2. News(s)
    <3>1. CASE r # s
      <4>1. Silent(r) \/ Announces(r) \/ Leaves(r)
        BY <1>4, LaunchKinds DEF Launch, LauncherInv
      <4>2. stage'[s] = stage[s] /\ outbox'[s] = outbox[s]
        BY <3>1, <4>1 DEF Silent, Announces, Leaves, EnterAnnounced, Enter, Write
      <4>3. QED
        BY <4>2 DEF FinstartUnread
    <3>2. CASE r = s
      <4>1. LaunchNext(s)
        BY <1>4, <3>2 DEF Launch
      <4>2. stage'[s] # "begin"
        BY <4>1 DEF LaunchNext, SeesInterrupt, CommandExits, BeginInterrupted, HangInterrupted,
                    RunInterrupted, LastInterrupted, BeginExits, KilledExits, EndExits, ErrExits,
                    RunExits, EnterAnnounced, Enter, AfterBegin
      <4>3. CASE stage[s] = "begin"
        BY <4>3
      <4>4. CASE stage[s] # "begin" /\ outbox' = outbox
        BY <4>2, <4>4 DEF FinstartUnread
      <4>5. ASSUME stage[s] # "begin", NEW m \in Message, m # "finstart", Write(s, m)
            PROVE  News(s)
        <5>1. FinstartUnread(s)' /\ outbox'[s] = Append(outbox[s], m)
          BY <4>2, <4>5 DEF Write
        <5>2. PICK q \in Seq(Message) : q = outbox[s]
          OBVIOUS
        <5>3. Append(q, m)[1] = "finstart"
          BY <5>1, <5>2 DEF FinstartUnread
        <5>4. q # <<>> /\ q[1] = "finstart"
          BY <4>5, <5>3
        <5>5. QED
          BY <5>2, <5>4 DEF FinstartUnread
      <4>6. \/ stage[s] = "begin"
            \/ outbox' = outbox
            \/ \E m \in Message : m # "finstart" /\ Write(s, m)
        <5>1. CASE SeesInterrupt(s)
          BY <5>1 DEF SeesInterrupt, BeginInterrupted, HangInterrupted, RunInterrupted,
                      LastInterrupted, EnterAnnounced, Announce, Message
        <5>2. CASE BeginExits(s)
          BY <5>2 DEF BeginExits, EnterAnnounced, Announce, AfterBegin, Message
        <5>3. CASE KilledExits(s) \/ EndExits(s) \/ ErrExits(s) \/ RunExits(s)
          BY <5>3 DEF KilledExits, EndExits, ErrExits, RunExits, EnterAnnounced, Announce, Message
        <5>4. QED
          BY <4>1, <5>1, <5>2, <5>3 DEF LaunchNext, CommandExits
      <4>7. QED
        BY <4>3, <4>4, <4>5, <4>6
    <3>3. QED
      BY <3>1, <3>2
  <2>3. QED
    BY <1>1, <2>1, <2>2
<1>5. CASE UNCHANGED vars
  BY <1>1, <1>5 DEF vars, serviceVars, launchVars, FinstartUnread
<1>6. QED
  BY <1>2, <1>3, <1>4, <1>5, StepKinds

-----------------------------------------------------------------------------
(* The refinement.                                                         *)

\* The whole invariant, given what PxDaemonEdges proves.
LEMMA SuperKeeps ==
  ASSUME Acyclic, IgnoreClosed, AllInstalled
  PROVE  /\ Init => Upright /\ SuperInv
         /\ Upright /\ SuperInv /\ [Next]_vars => (Upright /\ SuperInv)'
<1>1. Init => Upright /\ SuperInv
  BY InitSuper, UprightKeeps
<1>2. ASSUME Upright, SuperInv, [Next]_vars PROVE Upright' /\ SuperInv'
  <2>1. Upright'
    BY <1>2, UprightKeeps
  <2>2. CallInv' /\ ErrorInv' /\ WaitInv' /\ UpInv' /\ NewsInv'
    BY <1>2, <2>1, NextCallInv, NextErrorInv, NextWaitInv, NextUpInv, NextNewsInv
       DEF Upright, EdgesInv, SuperInv
  <2>3. QED
    BY <2>1, <2>2 DEF SuperInv
<1>3. QED
  BY <1>1, <1>2

\* A change of the status of s, of nobody else's.
Changes(s, st) == \A r \in Services : status'[r] = IF r = s THEN st ELSE status[r]

\* The changes of status that PxSupervision tells apart, and who makes them.
LEMMA StatusSteps ==
  ASSUME TypeInv, LauncherInv, LockInv, NewsInv, FrameInv, [Next]_vars
  PROVE  \/ \A r \in Services : status'[r] = status[r]
         \/ \E s \in Services :
              \/ /\ Update(s) /\ ReadyToStart(s) /\ status[s] = "Waiting"
                 /\ Changes(s, "Starting")
              \/ /\ Update(s) /\ ReadyToStop(s) /\ status[s] = "StopWaiting"
                 /\ \E st \in {"Stopping", "FailStopping"} : Changes(s, st)
              \/ status[s] = "Running" /\ Changes(s, "StopWaiting")
              \/ status[s] = "Starting" /\ Changes(s, "Running")
              \/ Up(s) /\ \E st \in {"Inactive", "Failed"} : Changes(s, st)
              \/ Excluded(s) /\ \E st \in {"Inactive", "Waiting"} : Changes(s, st)
<1>1. CASE Run
  <2>1. CASE \A r \in Services : ~(Update(r) /\ ~UpdateIsIdle(r))
    BY <1>1, <2>1, RunChanges
  <2>2. ASSUME NEW s \in Services, Update(s), ~UpdateIsIdle(s)
        PROVE  \/ /\ Update(s) /\ ReadyToStart(s) /\ status[s] = "Waiting"
                  /\ Changes(s, "Starting")
               \/ /\ Update(s) /\ ReadyToStop(s) /\ status[s] = "StopWaiting"
                  /\ \E st \in {"Stopping", "FailStopping"} : Changes(s, st)
               \/ status[s] = "Running" /\ Changes(s, "StopWaiting")
               \/ Excluded(s) /\ Changes(s, "Waiting")
    <3>1. \A r \in Services \ {s} : status'[r] = status[r]
      <4>1. Top.fn = "update" /\ Top.svc = s
        BY <2>2 DEF Update, Runs
      <4>2. QED
        BY <1>1, <4>1, RunChanges
    <3>2. Changes(s, status'[s])
      BY <3>1 DEF Changes
    <3>3. QED
      BY <2>2, <3>2, UpdateChanges DEF Included
  <2>3. QED
    BY <2>1, <2>2
<1>2. CASE Boot \/ \E c \in Clients : Request(c)
  <2>1. \/ status' = status
        \/ \E s \in Services : Forgive(s)
    BY <1>2 DEF Boot, Request, StartService, StopService, CascadeStopService, Refuse,
                SetTarget, serviceVars
  <2>2. ASSUME NEW s \in Services, Forgive(s)
        PROVE  \/ \A r \in Services : status'[r] = status[r]
               \/ Excluded(s) /\ Changes(s, "Inactive")
    BY <2>2 DEF Forgive, Excluded, Changes, TypeInv, DataTypes
  <2>3. QED
    BY <2>1, <2>2
<1>3. ASSUME NEW s \in Services, Deliver(s)
      PROVE  \/ \A r \in Services : status'[r] = status[r]
             \/ status[s] = "Starting" /\ Changes(s, "Running")
             \/ Up(s) /\ \E st \in {"Inactive", "Failed"} : Changes(s, st)
             \/ Excluded(s) /\ Changes(s, "Inactive")
  <2>1. outbox[s] # <<>> /\ outbox[s] \in Seq(Message) /\ Up(s)
    <3>1. outbox[s] # <<>>
      BY <1>3 DEF Deliver
    <3>2. QED
      BY <3>1 DEF TypeInv, DataTypes, LaunchTypeOK, LauncherInv, NoStrayLauncher
  <2>2. CASE FinishStartService(s) /\ Head(outbox[s]) = "finstart"
    <3>1. FinstartUnread(s)
      BY <2>1, <2>2 DEF FinstartUnread
    <3>2. status[s] = "Starting"
      BY <3>1 DEF NewsInv
    <3>3. Changes(s, "Running")
      BY <2>2 DEF FinishStartService, SetStatus, Changes, TypeInv, DataTypes
    <3>4. QED
      BY <3>2, <3>3
  <2>3. CASE FinishStopService(s)
    <3>1. \E st \in {"Inactive", "Failed"} : Changes(s, st)
      BY <2>3 DEF FinishStopService, SetStatus, Changes, TypeInv, DataTypes
    <3>2. QED
      BY <2>1, <3>1
  <2>4. CASE ServiceFinishes(s)
    BY <2>4 DEF ServiceFinishes, Forgive, Excluded, Changes, TypeInv, DataTypes
  <2>5. CASE FailService(s)
    BY <2>5 DEF FailService
  <2>6. QED
    BY <1>3, <2>2, <2>3, <2>4, <2>5, Reports
<1>4. CASE (\E s \in Services : Launch(s)) \/ UNCHANGED vars
  BY <1>4, LaunchChanges
<1>5. QED
  BY <1>1, <1>2, <1>3, <1>4, StepKinds

\* A service is started when what it requires runs.
LEMMA StartsWhenItMay ==
  ASSUME Acyclic, IgnoreClosed, TypeInv, FrameInv, SuperInv, NEW s \in Services,
         Update(s), ReadyToStart(s)
  PROVE  \A d \in Required(s) : d \in Services /\ Included(d)
<1>1. Complete(s)
  BY ReadyIsComplete DEF SuperInv
<1>2. ASSUME NEW d \in Required(s) PROVE d \in Services /\ Included(d)
  <2>1. PICK j \in DOMAIN Depend[s] : ~Depend[s][j].optional /\ d = Depend[s][j].name
    BY DEF Required
  <2>2. /\ Depend[s] \in Seq(Edge) /\ j \in Nat /\ j < Len(Depend[s]) + 1
        /\ Depend[s][j] \in Edge
    BY ServiceAssumption
  <2>3. Recorded(s, Depend[s][j])
    BY <1>1, <2>1, <2>2 DEF Complete, Has
  <2>4. PICK i \in DOMAIN deps[s] : deps[s][i] = Depend[s][j]
    BY <2>3 DEF Recorded
  <2>5. DependencyReady(deps[s][i])
    BY DEF ReadyToStart, DependenciesReady
  <2>6. QED
    BY <2>1, <2>2, <2>4, <2>5 DEF DependencyReady, Edge
<1>3. QED
  BY <1>2

\* A service is told to stop when nothing that is up requires it.
LEMMA StopsWhenItMay ==
  ASSUME TypeInv, FrameInv, EdgeInv, SuperInv, NEW s \in Services,
         Update(s), ReadyToStop(s), NEW x \in Services, Up(x)
  PROVE  s \notin Required(x)
<1>1. SUFFICES ASSUME s \in Required(x) PROVE FALSE
  OBVIOUS
<1>2. PICK j \in DOMAIN Depend[x] : ~Depend[x][j].optional /\ s = Depend[x][j].name
  BY <1>1 DEF Required
<1>3. /\ Depend[x] \in Seq(Edge) /\ j \in Nat /\ j < Len(Depend[x]) + 1
      /\ Depend[x][j] \in Edge /\ Depend[x][j] = To(s, FALSE)
  <2>1. Depend[x] \in Seq(Edge) /\ j \in Nat /\ j < Len(Depend[x]) + 1
    BY ServiceAssumption
  <2>2. Depend[x][j] \in Edge
    BY <2>1
  <2>3. QED
    BY <1>2, <2>1, <2>2 DEF Edge, To
<1>4. Recorded(x, To(s, FALSE))
  BY <1>2, <1>3 DEF SuperInv, UpInv, Complete, Has
<1>5. deps[x] \in Seq(Edge) /\ dependedBy[s] \in Seq(Edge)
  BY DEF TypeInv, DataTypes
<1>6. Count(deps[x], {To(s, FALSE)}) # 0
  <2>1. \E i \in DOMAIN deps[x] : deps[x][i] \in {To(s, FALSE)}
    BY <1>4 DEF Recorded
  <2>2. QED
    BY <1>5, <2>1, CountIsNat
<1>7. ~WalksDependencies(x)
  <2>1. stack # <<>> /\ CallTypes
    BY DEF Update, Runs, TypeInv
  <2>2. ~Excluded(x)
    BY DEF Up, Excluded
  <2>3. QED
    BY <2>1, <2>2, Walks
<1>8. Count(dependedBy[s], {To(x, FALSE)}) # 0
  BY <1>6, <1>7 DEF EdgeInv, Mirror
<1>9. PICK i \in DOMAIN dependedBy[s] : dependedBy[s][i] = To(x, FALSE)
  <2>1. \E i \in DOMAIN dependedBy[s] : dependedBy[s][i] \in {To(x, FALSE)}
    BY <1>5, <1>8, CountIsNat
  <2>2. QED
    BY <2>1
<1>10. DependentGone(To(x, FALSE))
  BY <1>9 DEF ReadyToStop, DependentsGone
<1>11. Excluded(x)
  BY <1>10 DEF DependentGone, To
<1>12. QED
  BY <1>11 DEF Excluded, Up

\* At first no service is up.
LEMMA InitSupervised == Init => Supervision!Init
  BY DEF Init, Supervision!Init, Up, Included

\* Every step of PxDaemon is a step of PxSupervision, or none.
LEMMA StepSupervised ==
  ASSUME Acyclic, IgnoreClosed, AllInstalled, Upright, SuperInv, [Next]_vars
  PROVE  [Supervision!Next]_(Supervision!vars)
<1> DEFINE up == {s \in Services : Up(s)}
           running == {s \in Services : Included(s)}
           told == {s \in Services : status[s] \in {"Stopping", "FailStopping"}}
<1>1. TypeInv /\ LauncherInv /\ LockInv /\ FrameInv /\ EdgeInv /\ NewsInv
  BY DEF Upright, EdgesInv, SuperInv
<1>2. CASE \A r \in Services : status'[r] = status[r]
  <2>1. up' = up /\ running' = running /\ told' = told
    BY <1>2 DEF Up, Included
  <2>2. QED
    BY <2>1 DEF Supervision!vars
<1>3. ASSUME NEW s \in Services, Update(s), ReadyToStart(s), status[s] = "Waiting",
             Changes(s, "Starting")
      PROVE  Supervision!Bring(s)
  <2>1. s \notin up /\ up' = up \union {s} /\ running' = running /\ told' = told
    BY <1>3 DEF Changes, Up, Included
  <2>2. \A d \in Required(s) : d \in running
    BY <1>1, <1>3, StartsWhenItMay
  <2>3. QED
    BY <2>1, <2>2 DEF Supervision!Bring
<1>4. ASSUME NEW s \in Services, Update(s), ReadyToStop(s), status[s] = "StopWaiting",
             NEW st \in {"Stopping", "FailStopping"}, Changes(s, st)
      PROVE  Supervision!Tell(s)
  <2>1. /\ s \in up /\ s \notin running /\ s \notin told
        /\ up' = up /\ running' = running /\ told' = told \union {s}
    BY <1>4 DEF Changes, Up, Included
  <2>2. \A x \in up : s \notin Required(x)
    BY <1>1, <1>4, StopsWhenItMay
  <2>3. QED
    BY <2>1, <2>2 DEF Supervision!Tell
<1>5. ASSUME NEW s \in Services, status[s] = "Running", Changes(s, "StopWaiting")
      PROVE  Supervision!Retire(s)
  <2>1. s \in running /\ running' = running \ {s} /\ up' = up /\ told' = told
    BY <1>5 DEF Changes, Up, Included
  <2>2. QED
    BY <2>1 DEF Supervision!Retire
<1>6. ASSUME NEW s \in Services, status[s] = "Starting", Changes(s, "Running")
      PROVE  Supervision!Ready(s)
  <2>1. s \in up \ told /\ running' = running \union {s} /\ up' = up /\ told' = told
    BY <1>6 DEF Changes, Up, Included
  <2>2. QED
    BY <2>1 DEF Supervision!Ready
<1>7. ASSUME NEW s \in Services, Up(s), NEW st \in {"Inactive", "Failed"}, Changes(s, st)
      PROVE  Supervision!Gone(s)
  <2>1. s \in up /\ up' = up \ {s} /\ running' = running \ {s} /\ told' = told \ {s}
    BY <1>7 DEF Changes, Up, Included
  <2>2. QED
    BY <2>1 DEF Supervision!Gone
<1>8. ASSUME NEW s \in Services, Excluded(s), NEW st \in {"Inactive", "Waiting"}, Changes(s, st)
      PROVE  UNCHANGED Supervision!vars
  <2>1. up' = up /\ running' = running /\ told' = told
    BY <1>8 DEF Changes, Up, Included, Excluded
  <2>2. QED
    BY <2>1 DEF Supervision!vars
<1>9. QED
  BY <1>1, <1>2, <1>3, <1>4, <1>5, <1>6, <1>7, <1>8, StatusSteps DEF Supervision!Next

\* PxDaemon implements PxSupervision (PxService.hpp, start, update and stop): with
\* every mandatory dependency installed, a service is started only while all it
\* requires run, and told to stop only while nothing that requires it is up,
\* whatever the nested calls, errors, requests and reports.
THEOREM DaemonSupervises ==
  ASSUME Acyclic, IgnoreClosed, AllInstalled PROVE Spec => Supervised
<1>1. Spec => [](Upright /\ SuperInv)
  BY SuperKeeps, PTL DEF Spec
<1>2. QED
  BY <1>1, InitSupervised, StepSupervised, PTL DEF Spec, Supervised, Supervision!Spec
=============================================================================
