---------------------------- MODULE CommandChannel ----------------------------
(***************************************************************************)
(* What a client that sends commands over a connection promises to those    *)
(* who issue them, without sockets, queues or registration: a command is    *)
(* handed to the network at most once, its outcome is settled at most once  *)
(* and is final, and only a command that was handed over can be answered.   *)
(* That every command gets an outcome is NOT promised.                      *)
(***************************************************************************)
EXTENDS Naturals

CONSTANT Commands

VARIABLES
    sends,     \* how often each command was handed to the network
    outcome    \* "idle", "issued", or how the command ended

chan == <<sends, outcome>>

Ends == {"answered", "failed", "dropped"}

ChanTypeOK ==
    /\ sends \in [Commands -> Nat]
    /\ outcome \in [Commands -> {"idle", "issued"} \union Ends]

Init ==
    /\ sends = [c \in Commands |-> 0]
    /\ outcome = [c \in Commands |-> "idle"]

\* A command is issued, and handed over at once or kept waiting.
Issue(c) ==
    /\ outcome[c] = "idle"
    /\ outcome' = [outcome EXCEPT ![c] = "issued"]
    /\ \/ UNCHANGED sends
       \/ sends' = [sends EXCEPT ![c] = 1]

\* Commands that waited are handed over; waiting may outlast the outcome.
Transmit(C) ==
    /\ \A c \in C : outcome[c] # "idle" /\ sends[c] = 0
    /\ sends' = [c \in Commands |-> IF c \in C THEN 1 ELSE sends[c]]
    /\ UNCHANGED outcome

\* The outcome of some commands is settled, once and for all.
Settle(C, end) ==
    /\ \A c \in C : outcome[c] = "issued" /\ (end = "answered" => sends[c] > 0)
    /\ outcome' = [c \in Commands |-> IF c \in C THEN end ELSE outcome[c]]
    /\ UNCHANGED sends

Next ==
    \/ \E c \in Commands : Issue(c)
    \/ \E C \in SUBSET Commands : Transmit(C)
    \/ \E C \in SUBSET Commands, end \in Ends : Settle(C, end)

Spec == Init /\ [][Next]_chan
=============================================================================
