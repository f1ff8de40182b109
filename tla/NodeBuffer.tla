----------------------------- MODULE NodeBuffer -----------------------------
(***************************************************************************)
(* isax_node_buffer.c: the four buffers of a leaf. A record is full when   *)
(* its time series is in memory and partial when only its position and its *)
(* encoding are; the tmp buffers hold records that own their memory, the   *)
(* others records that lie in the hard buffer of the first buffer layer.   *)
(* A buffer is its records and the number of places malloc or realloc made.*)
(***************************************************************************)
EXTENDS Naturals, Sequences

CONSTANT InitialBufferSize    \* initial_buffer_size

ASSUME InitialBufferSizeAssumption == InitialBufferSize \in Nat \ {0}

\* The insertion modes: NO_TMP | FULL, NO_TMP | PARTIAL, TMP | FULL, TMP | PARTIAL.
Full == "full"
Partial == "partial"
TmpFull == "tmp_full"
TmpPartial == "tmp_partial"
Modes == {Full, Partial, TmpFull, TmpPartial}

\* Whatever is in memory that nobody has written to.
Garbage == 0

\* init_node_buffer, and a node without buffer (after destroy_node_buffer).
NewBuffer == [m \in Modes |-> [records |-> <<>>, max |-> 0]]

\* The places of a buffer that is to get another record.
Grown(b) == IF b.max = 0 THEN InitialBufferSize
            ELSE IF b.max <= Len(b.records) THEN 2 * b.max
            ELSE b.max

Overwritten(b) == [b EXCEPT !.records = [n \in DOMAIN @ |-> Garbage]]

\* add_to_node_buffer. When the temporary partial buffer has to grow, realloc
\* gets the temporary full arrays: neither buffer keeps what it held.
AddToNodeBuffer(buffer, record, mode) ==
    LET wrong == mode = TmpPartial /\ Grown(buffer[mode]) > buffer[mode].max
                                   /\ buffer[mode].max > 0
        held == IF wrong THEN [buffer EXCEPT ![TmpPartial] = Overwritten(@),
                                             ![TmpFull] = Overwritten(@)]
                         ELSE buffer
    IN  [held EXCEPT ![mode] = [records |-> Append(@.records, record), max |-> Grown(@)]]

\* add_to_node_buffer for one record after the other.
AddAll(buffer, records, mode) ==
    LET added[n \in 0 .. Len(records)] ==
            IF n = 0 THEN buffer ELSE AddToNodeBuffer(added[n - 1], records[n], mode)
    IN  added[Len(records)]

\* flush_node_buffer: what is appended to <filename>.full and <filename>.part.
FlushedFull(buffer) == buffer[Full].records \o buffer[TmpFull].records
FlushedPartial(buffer) == buffer[Partial].records \o buffer[TmpPartial].records

\* clear_node_buffer: the cleaning mode says which records it frees; all four
\* sizes are set to 0 in every mode, the arrays keep their places.
ClearNodeBuffer(buffer) == [m \in Modes |-> [buffer[m] EXCEPT !.records = <<>>]]
=============================================================================
