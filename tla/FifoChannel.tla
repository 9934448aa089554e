----------------------------- MODULE FifoChannel -----------------------------
(***************************************************************************)
(* What the append stream relies on from its command queue: commands are   *)
(* taken in the order in which they were offered, a command whose sender   *)
(* was told "sent" leaves only by being taken or by the drain of a closed  *)
(* queue, and one whose sender was refused is never taken.                 *)
(***************************************************************************)
EXTENDS Naturals, Sequences

CONSTANT Command

VARIABLES
    channel,    \* offered and not yet taken, oldest first
    accepted,   \* commands whose sender was told "sent"
    offered,    \* commands that were ever offered
    open        \* the channel takes commands

channelVars == <<channel, accepted, offered, open>>

Init ==
    /\ channel = <<>>
    /\ accepted = {}
    /\ offered = {}
    /\ open = TRUE

(* A command joins at the end, accepted at once or not yet. *)
Offer(c) ==
    /\ open
    /\ c \notin offered
    /\ offered' = offered \cup {c}
    /\ channel' = Append(channel, c)
    /\ accepted' \in {accepted, accepted \cup {c}}
    /\ UNCHANGED open

(* A command refused at the door of a closed channel never joins. *)
Reject(c) ==
    /\ ~open
    /\ c \notin offered
    /\ offered' = offered \cup {c}
    /\ UNCHANGED <<channel, accepted, open>>

(* Acceptance goes in order: what is not yet accepted is a suffix. *)
Accept ==
    /\ \E k \in 0 .. Len(channel) :
        accepted' = accepted \cup {channel[i] : i \in 1 .. k}
    /\ UNCHANGED <<channel, offered, open>>

(* The head is taken. *)
Take ==
    /\ channel # <<>>
    /\ Head(channel) \in accepted
    /\ channel' = Tail(channel)
    /\ UNCHANGED <<accepted, offered, open>>

(* A command not yet accepted withdraws; the others keep their order. *)
Withdraw(c) ==
    /\ c \notin accepted
    /\ \E i \in DOMAIN channel :
        /\ channel[i] = c
        /\ channel' = SubSeq(channel, 1, i - 1) \o SubSeq(channel, i + 1, Len(channel))
    /\ UNCHANGED <<accepted, offered, open>>

(* Closing refuses what is not yet accepted, and nothing else. *)
Close ==
    /\ open' = FALSE
    /\ \E k \in 0 .. Len(channel) :
        /\ \A i \in DOMAIN channel : channel[i] \in accepted <=> i <= k
        /\ channel' = SubSeq(channel, 1, k)
    /\ UNCHANGED <<accepted, offered>>

(* The drain of a closing channel spares only a head already handed over. *)
Discard ==
    /\ open' = FALSE
    /\ channel' \in {<<>>, SubSeq(channel, 1, 1)}
    /\ UNCHANGED <<accepted, offered>>

Next ==
    \/ \E c \in Command : Offer(c) \/ Reject(c) \/ Withdraw(c)
    \/ Accept
    \/ Take
    \/ Close
    \/ Discard

Spec == Init /\ [][Next]_channelVars
=============================================================================
