--------------------------- MODULE MCPxFilesystem ---------------------------
(***************************************************************************)
(* The instances of PxFilesystem that are checked: a root filesystem known *)
(* by its UUID that is mounted already, one disk known by two names, a     *)
(* disk that is not mounted by itself, a swap device, a pseudo-filesystem. *)
(***************************************************************************)
EXTENDS PxFilesystem

E(source, target, n) ==
  [source |-> source, target |-> target, pass |-> n, type |-> "fs", noauto |-> FALSE]

MCFstab ==
  <<E("UUID=root", "/", 1), E("/dev/usr", "/usr", 1), E("LABEL=home", "/home", 2),
    E("/dev/home", "/srv", 2), [E("/dev/usb", "/mnt", 2) EXCEPT !.noauto = TRUE],
    [E("/dev/swap", "none", 0) EXCEPT !.type = "swap"], E("tmpfs", "/tmp", 0)>>
MCMtab == {[source |-> "/dev/root", target |-> "/"], [source |-> "proc", target |-> "/proc"]}
MCDevices ==
  {"/dev/root", "/dev/usr", "/dev/home", "/dev/usb", "/dev/swap", "UUID=root", "LABEL=home"}
MCNames == MCDevices \union {"tmpfs", "proc"}
MCTargets == {"/", "/usr", "/home", "/srv", "/mnt", "/tmp", "/proc", "none"}
MCPath ==
  [n \in MCDevices |-> CASE n = "UUID=root" -> "/dev/root"
                         [] n = "LABEL=home" -> "/dev/home"
                         [] OTHER -> n]

\* sh exits with what fsck exits with, or is killed by SIGTERM or SIGINT.
Exited(code) == code * 256
MCStatuses ==
  [n \in MCDevices |-> IF n = "/dev/usr" THEN {Exited(0), Exited(1), Exited(4), 15, 2}
                       ELSE IF n = "/dev/home" THEN {Exited(0), 15} ELSE {Exited(0)}]
=============================================================================
