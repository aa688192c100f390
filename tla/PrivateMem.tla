----------------------------- MODULE PrivateMem -----------------------------
(***************************************************************************)
(* What programs may expect of their memory: it changes only by what they  *)
(* do themselves, a fork copies it, a new program finds in it nothing that *)
(* another one stored.                                                     *)
(***************************************************************************)
EXTENDS Functions

CONSTANTS Task, Page, Text, Value

Blank == "junk"   \* what memory held when the machine was switched on

VARIABLES
    alive,   \* the programs that run
    view     \* what each of them has in its pages

privateVars == <<alive, view>>

Nothing == [v \in {} |-> Blank]
Fresh(f) == DOMAIN f \subseteq Page /\ Range(f) \subseteq Text \cup {Blank}
Touches(t) == view' = [view EXCEPT ![t] = view'[t]]

PrivateInit ==
    /\ \E t \in Task : alive \in {{}, {t}}
    /\ DOMAIN view = Task
    /\ \A t \in Task : IF t \in alive THEN Fresh(view[t]) ELSE view[t] = Nothing

Start(c) ==
    /\ alive # {} /\ c \notin alive /\ alive' = alive \cup {c}
    /\ Touches(c) /\ Fresh(view'[c])

\* The child may have more pages than its parent, but nothing that anybody stored.
Copy(t, c) ==
    /\ t \in alive /\ c \notin alive /\ alive' = alive \cup {c}
    /\ Touches(c) /\ DOMAIN view[t] \subseteq DOMAIN view'[c] /\ DOMAIN view'[c] \subseteq Page
    /\ \A v \in DOMAIN view'[c] : view'[c][v] = IF v \in DOMAIN view[t] THEN view[t][v] ELSE Blank

\* Another program takes over, in the pages of the old one and perhaps more.
Replace(t) ==
    /\ t \in alive /\ UNCHANGED alive
    /\ Touches(t) /\ DOMAIN view[t] \subseteq DOMAIN view'[t]
    /\ \A v \in DOMAIN view'[t] :
        \/ view'[t][v] \in Text \cup {Blank}
        \/ v \in DOMAIN view[t] /\ view'[t][v] = view[t][v]

Write(t, v, x) ==
    /\ t \in alive /\ v \in DOMAIN view[t]
    /\ view' = [view EXCEPT ![t][v] = x]
    /\ UNCHANGED alive

End(t) ==
    /\ t \in alive /\ alive' = alive \ {t}
    /\ view' = [view EXCEPT ![t] = Nothing]

\* The kernel stops, and every program with it.
Halt == alive' = {} /\ view' = [t \in Task |-> Nothing]

PrivateNext ==
    \/ \E t \in Task : Start(t) \/ Replace(t) \/ End(t) \/ \E c \in Task : Copy(t, c)
    \/ \E t \in Task, v \in Page, x \in Value : Write(t, v, x)
    \/ Halt

PrivateSpec == PrivateInit /\ [][PrivateNext]_privateVars
=============================================================================
