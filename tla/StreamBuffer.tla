---------------------------- MODULE StreamBuffer ----------------------------
(***************************************************************************)
(* One POOL_CONNECTION of pool_stream.c: the pending data read ahead of    *)
(* its use (hp, po, len), the string and packet buffers, the write buffer  *)
(* and the loops around read(2) and write(2).  The buffers are sequences   *)
(* of the size the code allocated, so that a copy past the end of one      *)
(* makes it longer than it was allocated.  Bytes are numbers: the position *)
(* of an incoming byte in the peer's stream, the rank of an outgoing one.  *)
(***************************************************************************)
EXTENDS Integers, Sequences, FiniteSetsExt

CONSTANTS
    Size, OutSize,  \* bounds: bytes the peer sends, bytes written to it
    Nul, Newline,   \* the positions of '\0' and of '\n' in the peer's stream
    READBUFSZ, WRITEBUFSZ,
    FailOverOnBackendError

ASSUME StreamAssumption == /\ Size \in Nat /\ OutSize \in Nat
                           /\ Nul \subseteq 1..Size
                           /\ Newline \subseteq 1..Size
                           /\ READBUFSZ \in Nat \ {0}
                           /\ WRITEBUFSZ \in Nat \ {0}
                           /\ FailOverOnBackendError \in BOOLEAN

VARIABLES
    isbackend,      \* cp->isbackend
    master,         \* IS_MASTER_NODE_ID(cp->db_node_id)
    proto,          \* protocol version: which read functions the caller uses
    pb,             \* pending data: hp, its recorded size bufsz, po and len,
                    \* and alloc, the size hp really has
    sbufsz, readsize,   \* pool_read_string
    bufsz2,         \* pool_read2
    partial, want,  \* the running read: what it has so far, what it still needs
    line,           \* pool_read_string's line
    taken,          \* bytes read(2) has returned so far
    given,          \* history: bytes handed to the caller and not put back
    mark,           \* history: where in the stream the last put-back ended
    no_forward,
    wbuf, offset,   \* write buffer up to wbufpo; what pool_flush_it has written of it
    todo, written,  \* pool_write: bytes still to copy; bytes copied in all calls
    wire, link,     \* what the peer received; FALSE once a write failed
    noticed,        \* notice_backend_error was called
    pc              \* the function the process is in

readVars == <<pb, sbufsz, readsize, bufsz2, partial, want, line, taken, given, mark>>
writeVars == <<wbuf, offset, todo, written, wire, link, no_forward>>
cfgVars == <<isbackend, master, proto>>
vars == <<cfgVars, readVars, writeVars, noticed, pc>>

Reading == {"pool_read", "pool_read2", "pool_read_string"}
Writing == {"pool_write", "flush_in_write", "pool_flush"}

Input == [i \in 1..Size |-> i]
Garbage == 0

-----------------------------------------------------------------------------
(* Memory *)

malloc(n) == [i \in 1..n |-> Garbage]

realloc(s, n) == [i \in 1..n |-> IF i <= Len(s) THEN s[i] ELSE Garbage]

(* Reading n bytes at an offset, whatever lies there.                      *)
Bytes(s, at, n) == [i \in 1..n |-> IF at + i <= Len(s) THEN s[at + i] ELSE Garbage]

(* memmove to an offset of s.                                              *)
Put(s, at, data) ==
    [i \in 1..Max({Len(s), at + Len(data)}) |->
        IF i > at /\ i <= at + Len(data) THEN data[i - at]
        ELSE IF i <= Len(s) THEN s[i] ELSE Garbage]

(* Buffers grow in units of READBUFSZ.                                     *)
RoundUp(n) == (n \div READBUFSZ + 1) * READBUFSZ

-----------------------------------------------------------------------------
(* The pending data *)

save_pending_data(p, data) ==
    LET po == IF p.len = 0 THEN 0 ELSE p.po
        reqlen == po + p.len + Len(data)
        grown == IF reqlen > p.bufsz
                 THEN [p EXCEPT !.hp = realloc(p.hp, RoundUp(reqlen)),
                                !.bufsz = RoundUp(reqlen),
                                !.alloc = RoundUp(reqlen)]
                 ELSE p
    IN [grown EXCEPT !.hp = Put(grown.hp, po + p.len, data),
                     !.po = po,
                     !.len = p.len + Len(data)]

MutLastByteKept(p, n) == IF n < p.len \/ p.len = 0 THEN Min({n, p.len}) ELSE p.len - 1
consumable(p, n) == Min({n, p.len})

consumed(p, n) == Bytes(p.hp, p.po, consumable(p, n))

MutRequestedTaken(p, n) == [p EXCEPT !.len = p.len - n, !.po = p.po + n]
consume_pending_data(p, n) ==
    LET c == consumable(p, n)
    IN [p EXCEPT !.len = p.len - c,
                 !.po = IF p.len - c <= 0 THEN 0 ELSE p.po + c]

MutPendingUncounted(p, data) ==
    LET grown == IF p.bufsz < Len(data)
                 THEN [p EXCEPT !.hp = realloc(p.hp, RoundUp(Len(data))),
                                !.alloc = RoundUp(Len(data))]
                 ELSE p
    IN [grown EXCEPT !.hp = Put(Put(grown.hp, Len(data), Bytes(grown.hp, p.po, p.len)), 0, data),
                     !.len = p.len + Len(data), !.po = 0]
MutOverwrites(p, data) == [p EXCEPT !.hp = Put(p.hp, 0, data), !.len = p.len + Len(data), !.po = 0]

(* bufsz is left as it is when the buffer is enlarged.                     *)
pool_unread(p, data) ==
    LET n == p.len + Len(data)
        grown == IF p.bufsz < n
                 THEN [p EXCEPT !.hp = realloc(p.hp, RoundUp(n)), !.alloc = RoundUp(n)]
                 ELSE p
        moved == IF p.len # 0
                 THEN Put(grown.hp, Len(data), Bytes(grown.hp, p.po, p.len))
                 ELSE grown.hp
    IN [grown EXCEPT !.hp = Put(moved, 0, data), !.len = n, !.po = 0]

(* mystrlen and mystrlinelen: the length up to and with the first          *)
(* terminator, and whether there is one.                                   *)
Terminators(ln) == IF ln THEN Nul \cup Newline ELSE Nul

Ends(str, ln) == {i \in 1..Len(str) : str[i] \in Terminators(ln)}

mystrlen(str, ln) == IF Ends(str, ln) = {} THEN Len(str) ELSE Min(Ends(str, ln))

Terminated(str, ln) == Ends(str, ln) # {}

-----------------------------------------------------------------------------
(* The caller.  It stands at a message boundary, reads the kind, reads the *)
(* rest, and may put back the kind alone, the whole message it has read or *)
(* the message without its kind.  It looks at one message at a time, so it *)
(* never goes back behind the place it put back to before.                 *)

Boundaries == {0} \cup Nul

StartOfLast == Max({0} \cup {b \in Boundaries : b < Len(given)})
NextBoundary == Min({b \in Boundaries \cup {Size + 1} : b > Len(given)})

AtBoundary == Len(given) \in Boundaries

(* pool_open *)
Init ==
    /\ isbackend \in BOOLEAN
    /\ master \in IF isbackend THEN BOOLEAN ELSE {TRUE}
    /\ proto \in {2, 3}
    /\ pb = [hp |-> malloc(READBUFSZ), alloc |-> READBUFSZ, bufsz |-> READBUFSZ,
             po |-> 0, len |-> 0]
    /\ sbufsz = 0 /\ readsize = 0 /\ bufsz2 = 0
    /\ partial = <<>> /\ want = 0 /\ line = FALSE
    /\ taken = 0 /\ given = <<>> /\ mark = 0
    /\ no_forward = FALSE
    /\ wbuf = <<>> /\ offset = 0 /\ todo = 0 /\ written = 0
    /\ wire = <<>> /\ link = TRUE
    /\ noticed = FALSE
    /\ pc = "caller"

(* A read function returns data to its caller.                             *)
Return(data) ==
    /\ given' = given \o data
    /\ partial' = <<>>
    /\ want' = 0
    /\ pc' = "caller"

(* It goes on with the socket.                                             *)
GoOn(data, rest, where) ==
    /\ partial' = data
    /\ want' = rest
    /\ pc' = where
    /\ given' = given

(* pool_read and pool_read2 take what is pending first.                    *)
FromPending(n, where) ==
    /\ pb' = consume_pending_data(pb, n)
    /\ IF consumable(pb, n) = n THEN Return(consumed(pb, n))
       ELSE GoOn(consumed(pb, n), n - consumable(pb, n), where)

ReadCall(n) ==
    /\ pc = "caller"
    /\ AtBoundary => n = 1
    /\ proto = 2 => n = 1
    /\ n <= NextBoundary - Len(given)
    /\ FromPending(n, "pool_read")
    /\ UNCHANGED <<cfgVars, writeVars, noticed, sbufsz, readsize, bufsz2, line, taken, mark>>

Read2Call(n) ==
    /\ pc = "caller"
    /\ proto = 3
    /\ ~AtBoundary
    /\ n <= NextBoundary - Len(given)
    /\ bufsz2' = IF pb.len + n > bufsz2 THEN RoundUp(pb.len + n + 1) ELSE bufsz2
    /\ FromPending(n, "pool_read2")
    /\ UNCHANGED <<cfgVars, writeVars, noticed, sbufsz, readsize, line, taken, mark>>

(* read(2) returns between one byte and as many as it was asked for; it    *)
(* may be interrupted, which pool_read and pool_read2 only try again.      *)
Received(m) == SubSeq(Input, taken + 1, taken + m)

ReadStep(m) ==
    /\ pc = "pool_read"
    /\ m \in 1..Min({READBUFSZ, Size - taken})
    /\ taken' = taken + m
    /\ IF want < m
       THEN /\ pb' = save_pending_data(pb, SubSeq(Received(m), want + 1, m))
            /\ Return(partial \o SubSeq(Received(m), 1, want))
       ELSE /\ pb' = pb
            /\ IF want = m THEN Return(partial \o Received(m))
               ELSE GoOn(partial \o Received(m), want - m, pc)
    /\ UNCHANGED <<cfgVars, writeVars, noticed, sbufsz, readsize, bufsz2, line, mark>>

Read2Step(m) ==
    /\ pc = "pool_read2"
    /\ m \in 1..Min({want, Size - taken})
    /\ taken' = taken + m
    /\ IF want = m THEN Return(partial \o Received(m))
       ELSE GoOn(partial \o Received(m), want - m, pc)
    /\ UNCHANGED <<cfgVars, writeVars, noticed, pb, sbufsz, readsize, bufsz2, line, mark>>

ReadStringCall(ln) ==
    LET hpstr == Bytes(pb.hp, pb.po, pb.len)
        strlength == mystrlen(hpstr, ln)
        sz == IF sbufsz = 0 THEN READBUFSZ ELSE sbufsz
        grown == IF strlength + 1 > sz THEN RoundUp(strlength + 1) ELSE sz
    IN /\ pc = "caller"
       /\ proto = 2
       /\ AtBoundary => ln
       /\ line' = ln
       /\ IF pb.len # 0
          THEN /\ sbufsz' = grown
               /\ pb' = consume_pending_data(pb, strlength)
               /\ IF Terminated(hpstr, ln)
                  THEN Return(consumed(pb, strlength)) /\ readsize' = readsize
                  ELSE /\ GoOn(consumed(pb, strlength), 0, "pool_read_string")
                       /\ readsize' = grown - strlength
          ELSE /\ sbufsz' = sz
               /\ pb' = pb
               /\ readsize' = sz
               /\ GoOn(<<>>, 0, "pool_read_string")
       /\ UNCHANGED <<cfgVars, writeVars, noticed, bufsz2, taken, mark>>

ReadStringStep(m) ==
    LET got == Received(m)
        strlength == mystrlen(got, line)
    IN /\ pc = "pool_read_string"
       /\ m \in 1..Min({readsize, Size - taken})
       /\ taken' = taken + m
       /\ IF strlength < m
          THEN /\ pb' = save_pending_data(pb, SubSeq(got, strlength + 1, m))
               /\ Return(partial \o SubSeq(got, 1, strlength))
               /\ UNCHANGED <<sbufsz, readsize>>
          ELSE /\ pb' = pb
               /\ IF Terminated(got, line)
                  THEN Return(partial \o got) /\ UNCHANGED <<sbufsz, readsize>>
                  ELSE /\ GoOn(partial \o got, 0, pc)
                       /\ readsize' = READBUFSZ
                       /\ sbufsz' = IF Len(partial) + m + READBUFSZ > sbufsz
                                    THEN sbufsz + READBUFSZ ELSE sbufsz
       /\ UNCHANGED <<cfgVars, writeVars, noticed, bufsz2, line, mark>>

(* pool_check_fd reports a time-out or a failed select(2): pgpool gives up *)
(* the session when the node is not the master.  At the end of the peer's  *)
(* stream read(2) returns 0 and the caller gets an error.                  *)
NotReady ==
    /\ pc \in Reading
    /\ pc' = IF master THEN "failed" ELSE "exited"
    /\ UNCHANGED <<cfgVars, readVars, writeVars, noticed>>

Eof ==
    /\ pc \in Reading
    /\ taken = Size
    /\ pc' = "failed"
    /\ UNCHANGED <<cfgVars, readVars, writeVars, noticed>>

ReadError ==
    /\ pc \in Reading
    /\ noticed' = isbackend
    /\ pc' = IF isbackend THEN "exited" ELSE "failed"
    /\ UNCHANGED <<cfgVars, readVars, writeVars>>

(* detect_error and pool_extract_error_message look at the next message,   *)
(* with its kind or after it, and put back what they read.                 *)
Unread(n) ==
    /\ pc = "caller"
    /\ \/ AtBoundary /\ n \in {Len(given) - StartOfLast, Len(given) - StartOfLast - 1}
       \/ ~AtBoundary /\ n = 1 /\ Len(given) = StartOfLast + 1
    /\ n > 0 /\ Len(given) - n >= mark
    /\ mark' = Len(given) - n
    /\ pb' = pool_unread(pb, SubSeq(given, Len(given) - n + 1, Len(given)))
    /\ given' = SubSeq(given, 1, Len(given) - n)
    /\ UNCHANGED <<cfgVars, writeVars, noticed, pc, sbufsz, readsize, bufsz2, partial,
                   want, line, taken>>

-----------------------------------------------------------------------------
(* Writing *)

WriteCall(n) ==
    /\ pc = "caller"
    /\ written + n <= OutSize
    /\ IF no_forward THEN pc' = pc /\ todo' = todo
       ELSE pc' = "pool_write" /\ todo' = n
    /\ UNCHANGED <<cfgVars, readVars, noticed, wbuf, offset, written, wire, link, no_forward>>

(* One round of pool_write's loop.                                         *)
WriteCopy ==
    LET n == Min({WRITEBUFSZ - Len(wbuf), todo})
    IN /\ pc = "pool_write"
       /\ IF Len(wbuf) >= WRITEBUFSZ
          THEN /\ pc' = "flush_in_write"
               /\ UNCHANGED <<wbuf, written, todo>>
          ELSE /\ wbuf' = wbuf \o [i \in 1..n |-> written + i]
               /\ written' = written + n
               /\ todo' = todo - n
               /\ pc' = IF n = todo THEN "caller" ELSE pc
       /\ UNCHANGED <<cfgVars, readVars, noticed, offset, wire, link, no_forward>>

FlushCall ==
    /\ pc = "caller"
    /\ pc' = IF wbuf = <<>> THEN "caller" ELSE "pool_flush"
    /\ UNCHANGED <<cfgVars, readVars, writeVars, noticed>>

(* One write(2) of pool_flush_it; an interrupted one is tried again.  A    *)
(* peer that once failed to receive never receives again.                  *)
FlushStep(sts) ==
    LET wlen == Len(wbuf) - offset
    IN /\ pc \in {"flush_in_write", "pool_flush"}
       /\ link
       /\ sts \in 1..wlen
       /\ wire' = wire \o Bytes(wbuf, offset, sts)
       /\ IF sts = wlen
          THEN /\ wbuf' = <<>>
               /\ offset' = 0
               /\ pc' = IF pc = "pool_flush" THEN "caller" ELSE "pool_write"
          ELSE /\ offset' = offset + sts
               /\ UNCHANGED <<wbuf, pc>>
       /\ UNCHANGED <<cfgVars, readVars, noticed, todo, written, link, no_forward>>

(* pool_write gives up the rest of its data and returns -1; pool_flush     *)
(* ignores a lost frontend and fails over for a lost backend.              *)
FlushError ==
    /\ pc \in {"flush_in_write", "pool_flush"}
    /\ link' = FALSE
    /\ wbuf' = <<>>
    /\ offset' = 0
    /\ todo' = 0
    /\ IF pc = "pool_flush" /\ isbackend /\ FailOverOnBackendError
       THEN noticed' = TRUE /\ pc' = "exited"
       ELSE noticed' = noticed /\ pc' = "caller"
    /\ UNCHANGED <<cfgVars, readVars, written, wire, no_forward>>

(* The reset queries at the end of a session are not to reach the client.  *)
StartReset ==
    /\ pc = "caller"
    /\ ~isbackend
    /\ no_forward' = TRUE
    /\ UNCHANGED <<cfgVars, readVars, noticed, pc, wbuf, offset, todo, written, wire, link>>

pool_close ==
    /\ pc \in {"caller", "failed"}
    /\ pc' = "closed"
    /\ UNCHANGED <<cfgVars, readVars, writeVars, noticed>>

Next ==
    \/ \E n \in 1..Size : \/ ReadCall(n) \/ Read2Call(n) \/ Unread(n)
                          \/ ReadStep(n) \/ Read2Step(n) \/ ReadStringStep(n)
    \/ \E n \in 1..OutSize : WriteCall(n) \/ FlushStep(n)
    \/ \E ln \in BOOLEAN : ReadStringCall(ln)
    \/ NotReady \/ Eof \/ ReadError
    \/ WriteCopy \/ FlushCall \/ FlushError \/ StartReset
    \/ pool_close

Spec == Init /\ [][Next]_vars

-----------------------------------------------------------------------------
Byte == 0..Size

TypeOK ==
    /\ isbackend \in BOOLEAN /\ master \in BOOLEAN /\ proto \in {2, 3}
    /\ pb \in [hp : Seq(Byte), alloc : Nat, bufsz : Nat, po : Nat, len : Nat]
    /\ sbufsz \in Nat /\ readsize \in Nat /\ bufsz2 \in Nat
    /\ partial \in Seq(Byte) /\ want \in Nat /\ line \in BOOLEAN
    /\ taken \in 0..Size /\ given \in Seq(Byte) /\ mark \in Nat
    /\ wbuf \in Seq(1..OutSize) /\ offset \in Nat /\ todo \in Nat /\ written \in 0..OutSize
    /\ wire \in Seq(1..OutSize) /\ link \in BOOLEAN
    /\ no_forward \in BOOLEAN /\ noticed \in BOOLEAN
    /\ pc \in Reading \cup Writing \cup {"caller", "failed", "exited", "closed"}

(* No buffer is ever written or read past the size it was allocated with:  *)
(* the pending data although pool_unread enlarges it without recording the *)
(* new size, the string buffer although the size asked of read(2) and the  *)
(* size of the buffer are computed apart, the packet buffer of pool_read2  *)
(* and the write buffer.                                                   *)
NoOverrun ==
    /\ Len(pb.hp) = pb.alloc
    /\ pb.po + pb.len <= pb.alloc
    /\ pc = "pool_read_string" => Len(partial) + readsize <= sbufsz
    /\ pc = "pool_read2" => Len(partial) + want <= bufsz2
    /\ Len(wbuf) <= WRITEBUFSZ

(* A read function waits in select(2) only when nothing is pending: bytes  *)
(* the caller is owed are never held back in the buffer while the process  *)
(* sleeps until the peer sends more.                                       *)
NoNeedlessWait == pc \in Reading => pb.len = 0

(* The buffered connection implements the byte stream: bytes come in their *)
(* order and once across short reads, read-ahead and put-backs, and go out *)
(* in order across partial writes and full buffers.  What a read has so    *)
(* far and what is pending are still the caller's to come.                 *)
Abstract == INSTANCE ByteStream WITH
    inbound <- partial \o Bytes(pb.hp, pb.po, pb.len) \o SubSeq(Input, taken + 1, Size),
    outbound <- IF link THEN SubSeq(wbuf, offset + 1, Len(wbuf)) ELSE <<>>

ImplementsByteStream == Abstract!Spec
=============================================================================
