--------------------------- MODULE TaskLifecycle ---------------------------
(***************************************************************************)
(* What a task store promises, whichever store runs underneath: the life   *)
(* of a task as its revisions, and the once-only effect of keys and        *)
(* operation ids.  The file store (TaskStore) and the PostgreSQL store     *)
(* (PostgresStore) both implement this specification.                      *)
(*                                                                         *)
(* A task is [uuid, queue, guarded, leased, revision]; leased tasks have a *)
(* timeout.  accepted and applied hold the keyed submissions and the       *)
(* guarded operations that took effect, with their times.                  *)
(***************************************************************************)
EXTENDS Integers

CONSTANT Retention   \* how long a key or an operation id is remembered

VARIABLES live, finished, accepted, applied, now

lifecycle == <<live, finished, accepted, applied, now>>

\* t moves on by one mutation to n.
Follows(n, t) ==
  /\ <<n.uuid, n.queue, n.guarded>> = <<t.uuid, t.queue, t.guarded>>
  /\ n.revision = t.revision + 1

\* t is replaced by the task n, which is live or finished.
Replaced(t, n) ==
  /\ Follows(n, t)
  /\ live' \in {live \ {t}, (live \ {t}) \cup {n}}
  /\ finished' = IF n \in live' THEN finished ELSE finished \cup {n}

New(t) ==
  /\ \A x \in live \cup finished : x.uuid # t.uuid
  /\ t.revision = 1
  /\ live' = live \cup {t}
  /\ finished' = finished

Init ==
  /\ live = {}
  /\ finished = {}
  /\ accepted = {}
  /\ applied = {}
  /\ now = 0

Submit ==
  /\ \E t \in live' : New(t) /\ ~t.guarded
  /\ UNCHANGED <<accepted, applied, now>>

\* A submission key makes one task until its retention, counted from the time noted
\* with it, has passed.
SubmitKeyed ==
  /\ \E t \in live', a \in accepted' :
       /\ New(t)
       /\ <<a.uuid, a.queue>> = <<t.uuid, t.queue>>
       /\ a.at <= now
       /\ accepted' = accepted \cup {a}
       /\ \A b \in accepted :
            <<b.queue, b.key>> = <<a.queue, a.key>> => b.at + Retention <= now
  /\ UNCHANGED <<applied, now>>

\* A change without an operation id: never of a guarded task.
Legacy ==
  /\ \E t \in live : ~t.guarded /\ \E n \in live' \cup finished' : Replaced(t, n)
  /\ UNCHANGED <<accepted, applied, now>>

\* An operation id changes one task, at the revision after the one it found, and
\* nothing more until its retention has passed.
Guarded ==
  /\ \E t \in live, o \in applied' :
       /\ \E n \in live' \cup finished' : Replaced(t, n)
       /\ <<o.uuid, o.revision>> = <<t.uuid, t.revision + 1>>
       /\ o.at <= now
       /\ applied' = applied \cup {o}
       /\ \A p \in applied : p.id = o.id => p.at + Retention <= now
  /\ UNCHANGED <<accepted, now>>

\* Timeouts take leased tasks back, each at a new revision.
TimeOut ==
  /\ \A t \in live \ live' : t.leased /\ \E n \in live' : Follows(n, t) /\ ~n.leased
  /\ \A n \in live' \ live : \E t \in live \ live' : Follows(n, t)
  /\ UNCHANGED <<finished, accepted, applied, now>>

Clock == now' # now /\ UNCHANGED <<live, finished, accepted, applied>>

Next == Submit \/ SubmitKeyed \/ Legacy \/ Guarded \/ TimeOut \/ Clock

Spec == Init /\ [][Next]_lifecycle
=============================================================================
