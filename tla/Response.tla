------------------------------- MODULE Response -------------------------------
(***************************************************************************)
(* What the server may rely on when it reads a handler's stream: either a  *)
(* response, which begins once, grows and ends at most once, or, if the    *)
(* handler has taken the stream over, no response at all.  Nothing comes   *)
(* after the stream was cut or closed.                                     *)
(*                                                                         *)
(* Only a handler that breaks the rules of its own framing can make it     *)
(* send what the server cannot place: a body past its announced length or  *)
(* under a status that has none, or one that is not chunked as announced.  *)
(* That comes after everything that was decoded, and nothing after it is:  *)
(* it never changes what was read, nor ends a response that had begun.     *)
(***************************************************************************)
EXTENDS Naturals

VARIABLES
    answer,  \* what was read so far: "none", "head" or "end" (all of it)
    wrote,   \* units of its body
    junk,    \* something came that belongs to no response
    honest,  \* the handler has kept the rules of framing
    taken,   \* the stream is the handler's own
    shut     \* the stream was closed or cut

vars == <<answer, wrote, junk, honest, taken, shut>>

Init ==
    /\ answer = "none" /\ wrote = 0 /\ junk = FALSE /\ honest = TRUE
    /\ taken = FALSE /\ shut = FALSE

\* Rules once broken stay broken, and any step may break them.
Honesty == honest' \in {honest, FALSE}

\* The response begins, goes on, ends, or several of these at once; the last of
\* it may come together with the stream's close.
Respond ==
    /\ ~taken /\ ~shut /\ ~junk /\ answer # "end"
    /\ answer' \in {"head", "end"}
    /\ \/ wrote' \in {wrote, wrote + 1} /\ shut' = FALSE
       \/ wrote' = wrote /\ shut' = TRUE
    /\ Honesty
    /\ UNCHANGED <<junk, taken>>

\* What cannot be placed, with or without the head it follows.
Spoil ==
    /\ ~taken /\ ~shut
    /\ junk' = TRUE /\ honest' = FALSE
    /\ answer' = answer \/ (answer = "none" /\ answer' \in {"head", "end"})
    /\ shut' \in BOOLEAN
    /\ UNCHANGED <<wrote, taken>>

Take ==
    /\ answer = "none"
    /\ taken' = TRUE
    /\ UNCHANGED <<answer, wrote, junk, honest, shut>>

Shut ==
    /\ shut' = TRUE
    /\ Honesty
    /\ UNCHANGED <<answer, wrote, junk, taken>>

\* Nothing is sent, and the handler is found to have broken its own rules.
Misbehave ==
    /\ honest' = FALSE
    /\ UNCHANGED <<answer, wrote, junk, taken, shut>>

Next == Respond \/ Spoil \/ Take \/ Shut \/ Misbehave

Spec == Init /\ [][Next]_vars
===============================================================================
