-------------------------- MODULE MCTaskLifecycle --------------------------
(* Small instances of TaskLifecycle: three people, one of them with a      *)
(* manager, and an audit trail long enough for a rejection and a second    *)
(* closure.                                                                *)
EXTENDS TaskLifecycle

\* "ann" has the manager "meg"; the others have nobody above them.
MCManagerOf == [p \in People |-> IF p = "ann" THEN "meg" ELSE NoOne]
=============================================================================
