----------------------------- MODULE ByteStream -----------------------------
(***************************************************************************)
(* What a POOL_CONNECTION promises the code above it, without its buffers: *)
(* the peer's bytes are handed over in the order they were sent, each of   *)
(* them once unless it was put back, and what was accepted for writing     *)
(* reaches the peer in order, cut off only by the loss of the link.        *)
(***************************************************************************)
EXTENDS Naturals, Sequences

CONSTANT Input      \* the bytes the peer sends

VARIABLES
    given,          \* bytes handed to the caller and not put back
    inbound,        \* bytes the caller has yet to be given
    outbound,       \* bytes accepted for writing, not yet with the peer
    wire,           \* bytes the peer has received
    link            \* TRUE until a write fails

vars == <<given, inbound, outbound, wire, link>>

Init == /\ given = <<>>
        /\ inbound = Input
        /\ outbound = <<>>
        /\ wire = <<>>
        /\ link = TRUE

Deliver == \E n \in 1..Len(inbound) :
    /\ given' = given \o SubSeq(inbound, 1, n)
    /\ inbound' = SubSeq(inbound, n + 1, Len(inbound))
    /\ UNCHANGED <<outbound, wire, link>>

PutBack == \E n \in 1..Len(given) :
    /\ given' = SubSeq(given, 1, Len(given) - n)
    /\ inbound' = SubSeq(given, Len(given) - n + 1, Len(given)) \o inbound
    /\ UNCHANGED <<outbound, wire, link>>

(* Bytes are numbered in the order in which they are written.              *)
Accept ==
    /\ link
    /\ Len(outbound') > Len(outbound)
    /\ outbound' = [i \in 1..Len(outbound') |->
                      IF i <= Len(outbound) THEN outbound[i] ELSE Len(wire) + i]
    /\ UNCHANGED <<given, inbound, wire, link>>

Transmit == \E n \in 1..Len(outbound) :
    /\ link
    /\ wire' = wire \o SubSeq(outbound, 1, n)
    /\ outbound' = SubSeq(outbound, n + 1, Len(outbound))
    /\ UNCHANGED <<given, inbound, link>>

Break ==
    /\ link
    /\ link' = FALSE
    /\ outbound' = <<>>
    /\ UNCHANGED <<given, inbound, wire>>

Next == Deliver \/ PutBack \/ Accept \/ Transmit \/ Break

Spec == Init /\ [][Next]_vars
=============================================================================
