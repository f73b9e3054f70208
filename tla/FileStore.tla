----------------------------- MODULE FileStore -----------------------------
(***************************************************************************)
(* What a file system promises to clients that append to files: a file     *)
(* holds what was written to it, in order, until it is unlinked; and after *)
(* a crash the files of the last unmount are back, those that have not     *)
(* been unlinked since with the contents they had then.                    *)
(***************************************************************************)
EXTENDS Integers, Sequences, TLC

CONSTANTS
    Files,          \* the paths
    Sizes,          \* how many bytes may be appended at once
    Byte(_, _),     \* the byte a client writes at a position of a file
    Unknown         \* the contents of a file nothing is promised about

VARIABLES
    files,          \* the files there are, and their contents
    saved,          \* those at the last unmount
    lost            \* the paths unlinked since

vars == <<files, saved, lost>>

Init == files = <<>> /\ saved = <<>> /\ lost = {}

Create(p) ==
    /\ p \notin DOMAIN files
    /\ files' = files @@ (p :> <<>>)
    /\ UNCHANGED <<saved, lost>>

Extend(p, n) ==
    /\ p \in DOMAIN files
    /\ files' = [files EXCEPT ![p] = @ \o [k \in 1..n |-> Byte(p, Len(@) + k - 1)]]
    /\ UNCHANGED <<saved, lost>>

\* A client that does more than append is promised nothing about this file.
Spoil(p) ==
    /\ p \in DOMAIN files
    /\ files' = [files EXCEPT ![p] = Unknown]
    /\ UNCHANGED <<saved, lost>>

Unlink(p) ==
    /\ p \in DOMAIN files
    /\ files' = [q \in DOMAIN files \ {p} |-> files[q]]
    /\ lost' = lost \cup {p}
    /\ UNCHANGED saved

Unmount ==
    /\ saved' = files
    /\ lost' = {}
    /\ UNCHANGED files

Crash ==
    /\ DOMAIN files' = DOMAIN saved
    /\ \A p \in DOMAIN saved \ lost : files'[p] \in {saved[p], Unknown}
    /\ UNCHANGED <<saved, lost>>

Next ==
    \/ \E p \in Files : Create(p) \/ Spoil(p) \/ Unlink(p) \/ \E n \in Sizes : Extend(p, n)
    \/ Unmount
    \/ Crash

Spec == Init /\ [][Next]_vars
=============================================================================
