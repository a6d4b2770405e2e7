---------------------------- MODULE SingleFlight ----------------------------
(***************************************************************************)
(* What one SSV endpoint promises its callers about session tokens, with   *)
(* no mutex, no server and no program counter: one token is current at a   *)
(* time and only one request for a new one is under way; a token that was  *)
(* given up never comes back; a call sends a given token once, and sends   *)
(* at most two (the first attempt and the retry).  Module Session shows    *)
(* that ensureToken, getOne and closeSession implement it.                 *)
(***************************************************************************)
EXTENDS Naturals, Sequences

CONSTANTS
    Caller,   \* the goroutines that issue calls
    Token,    \* the tokens SSV may issue
    NoToken   \* no token is current

VARIABLES
    current,  \* the token handed to callers
    opening,  \* a new token has been asked for
    past,     \* the tokens issued so far
    sent      \* the tokens each caller sent in its present call, in order

vars == <<current, opening, past, sent>>

Init ==
    /\ current = NoToken
    /\ opening = FALSE
    /\ past = {}
    /\ sent = [c \in Caller |-> <<>>]

\* Caller c sends a token: the first of its call, or another one after it.
Send(c, t) ==
    \/ sent[c] = <<>> /\ sent' = [sent EXCEPT ![c] = <<t>>]
    \/ \E u \in Token \ {t} : sent[c] = <<u>> /\ sent' = [sent EXCEPT ![c] = <<u, t>>]

\* A new token is asked for, if none is current and nobody is asking.
Ask ==
    /\ current = NoToken
    /\ ~opening
    /\ opening' = TRUE
    /\ UNCHANGED <<current, past, sent>>

\* It arrives: a token never seen before, which the asking caller sends.
Receive(c, t) ==
    /\ opening
    /\ t \notin past
    /\ opening' = FALSE
    /\ past' = past \cup {t}
    /\ current' = t
    /\ Send(c, t)

\* It does not arrive, although one may have been issued; the asking caller's
\* call may be over with that.
Miss(c) ==
    /\ opening
    /\ opening' = FALSE
    /\ past' = past \/ (\E t \in Token \ past : past' = past \cup {t})
    /\ sent' = sent \/ sent' = [sent EXCEPT ![c] = <<>>]
    /\ UNCHANGED current

\* A caller sends the current token.
Reuse(c) ==
    /\ ~opening
    /\ current # NoToken
    /\ Send(c, current)
    /\ UNCHANGED <<current, opening, past>>

\* The current token is given up.
Discard ==
    /\ ~opening
    /\ current' = NoToken
    /\ UNCHANGED <<opening, past, sent>>

\* A call is over.
Return(c) ==
    /\ sent' = [sent EXCEPT ![c] = <<>>]
    /\ UNCHANGED <<current, opening, past>>

Next ==
    \/ Ask
    \/ Discard
    \/ \E c \in Caller : Miss(c) \/ Reuse(c) \/ Return(c) \/ (\E t \in Token : Receive(c, t))

Spec == Init /\ [][Next]_vars
=============================================================================
