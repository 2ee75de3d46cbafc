----------------------------- MODULE ServiceSlot ------------------------------
(***************************************************************************)
(* What Registry promises to the rest of the server, without its locks,    *)
(* channels and timers.  Each service has at most one owner; the newest    *)
(* session wins; a session that lost its slot never owns one again; and a  *)
(* lookup is atomic: it returns the owner of the very moment it answers,   *)
(* or comes back empty-handed only if the slot was empty at some moment    *)
(* of the lookup.                                                          *)
(***************************************************************************)

CONSTANTS Service, Session, Request, None

VARIABLES
    owner,   \* service -> the session that answers for it, or None
    past,    \* sessions that have owned a slot and lost it
    answer,  \* request -> "none" (not asked yet), "held", "hit" or "miss"
    target,  \* request -> the session it was given, or None
    of       \* request -> the service it asked for, or None

vars == <<owner, past, answer, target, of>>

Init ==
    /\ owner  = [v \in Service |-> None]
    /\ past   = {}
    /\ answer = [r \in Request |-> "none"]
    /\ target = [r \in Request |-> None]
    /\ of     = [r \in Request |-> None]

Owners == {owner[v] : v \in Service} \ {None}

\* A session that never owned a slot takes one; the previous owner is past.
Take(s, v) ==
    /\ s \notin past \cup Owners
    /\ owner' = [owner EXCEPT ![v] = s]
    /\ past' = past \cup ({owner[v]} \ {None})
    /\ UNCHANGED <<answer, target, of>>

Leave(v) ==
    /\ owner[v] # None
    /\ owner' = [owner EXCEPT ![v] = None]
    /\ past' = past \cup {owner[v]}
    /\ UNCHANGED <<answer, target, of>>

Clear ==
    /\ owner' = [v \in Service |-> None]
    /\ past' = past \cup Owners
    /\ UNCHANGED <<answer, target, of>>

Asks(r, v) ==
    \/ answer[r] = "none" /\ of' = [of EXCEPT ![r] = v]
    \/ answer[r] = "held" /\ of[r] = v /\ UNCHANGED of

Hit(r, v) ==
    /\ Asks(r, v)
    /\ owner[v] # None
    /\ answer' = [answer EXCEPT ![r] = "hit"]
    /\ target' = [target EXCEPT ![r] = owner[v]]
    /\ UNCHANGED <<owner, past>>

Hold(r, v) ==
    /\ answer[r] = "none"
    /\ owner[v] = None
    /\ of' = [of EXCEPT ![r] = v]
    /\ answer' = [answer EXCEPT ![r] = "held"]
    /\ UNCHANGED <<owner, past, target>>

Miss(r, v) ==
    /\ Asks(r, v)
    /\ answer[r] = "held" \/ owner[v] = None
    /\ answer' = [answer EXCEPT ![r] = "miss"]
    /\ UNCHANGED <<owner, past, target>>

Next ==
    \/ \E v \in Service : \/ Leave(v)
                          \/ \E s \in Session : Take(s, v)
                          \/ \E r \in Request : Hit(r, v) \/ Hold(r, v) \/ Miss(r, v)
    \/ Clear

Spec == Init /\ [][Next]_vars
===============================================================================
