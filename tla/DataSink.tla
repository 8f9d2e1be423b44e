------------------------------ MODULE DataSink -------------------------------
(***************************************************************************)
(* Steady data sinks (scheduling/structures/datasink.h, datasink.cpp) and  *)
(* system calls 23 to 26: processes with the permission append fragments   *)
(* to a sink, its owner reads them as a stream of bytes or one by one.     *)
(*                                                                         *)
(* The bytes of a sink are numbered in the order they are written, so that *)
(* a fragment is an interval of them.  Whether the memory of the caller    *)
(* can be read or written is the caller's doing, and free here.            *)
(***************************************************************************)
EXTENDS Integers, Sequences, FiniteSets

CONSTANTS
    SinkProc,       \* processes
    Sink,           \* handles of sinks
    Grants,         \* the sets of processes that may write to a sink
    Sizes,          \* the sizes that callers pass, 0 included
    MaxSize,        \* the largest size taken, 2048
    MaxFragments,   \* writes are refused above this many fragments, 200
    MaxBytes        \* bound on the bytes written to a sink

ASSUME DataSinkAssumption ==
    /\ Grants \subseteq SUBSET SinkProc /\ Sizes \subseteq Nat
    /\ MaxSize \in Nat /\ MaxFragments \in Nat /\ MaxBytes \in Nat

VARIABLES
    sinks,          \* the live sinks: owner, writers and fragments
    buffers,        \* buffers of the kernel heap that hold bytes of sinks
    sent,           \* how many bytes were written to each sink
    taken,          \* how many bytes have left each sink
    dead_processes, \* the processes that have died
    answer          \* what the last call returned

sinkVars == <<sinks, buffers, sent, taken, dead_processes, answer>>

NoSink == [owner |-> "none", writers |-> {}, fragments |-> <<>>]
Answer(call, code, bytes) == [call |-> call, code |-> code, bytes |-> bytes]

SinkInit ==
    /\ sinks = [k \in Sink |-> NoSink]
    /\ buffers = {}
    /\ sent = [k \in Sink |-> 0]
    /\ taken = [k \in Sink |-> 0]
    /\ dead_processes = {}
    /\ answer = Answer("none", 0, <<>>)
-----------------------------------------------------------------------------
\* A fragment: its bytes first .. first + actual - 1, of which the last
\* remaining ones were not streamed yet, in the buffer that holds them.
Fragment(first, size, buffer) ==
    [first |-> first, actual |-> size, remaining |-> size, buffer |-> buffer]

FirstLeft(f) == f.first + f.actual - f.remaining
Interval(a, n) == [i \in 1 .. n |-> a + i - 1]

\* One round of the loop of consume_data_stream: c holds the fragments, the
\* buffers, how many bytes are left to read, and the bytes read.
\* Faulty variant: a fragment read in part is read from its start again.
ReadFrontFromStart(c) ==
    LET f == Head(c.fragments)
    IN  IF c.left = 0 \/ c.fragments = <<>> THEN c
        ELSE IF c.left >= f.remaining
        THEN [fragments |-> Tail(c.fragments), buffers |-> c.buffers \ {f.buffer},
              left |-> c.left - f.remaining,
              bytes |-> c.bytes \o Interval(f.first, f.remaining)]
        ELSE [fragments |-> <<[f EXCEPT !.remaining = @ - c.left]>> \o Tail(c.fragments),
              buffers |-> c.buffers, left |-> 0,
              bytes |-> c.bytes \o Interval(f.first, c.left)]

\* A fragment read in part ends the loop, and stays in front.
ReadFront(c) ==
    LET f == Head(c.fragments)
    IN  IF c.left = 0 \/ c.fragments = <<>> THEN c
        ELSE IF c.left >= f.remaining
        THEN [fragments |-> Tail(c.fragments), buffers |-> c.buffers \ {f.buffer},
              left |-> c.left - f.remaining,
              bytes |-> c.bytes \o Interval(FirstLeft(f), f.remaining)]
        ELSE [fragments |-> <<[f EXCEPT !.remaining = @ - c.left]>> \o Tail(c.fragments),
              buffers |-> c.buffers, left |-> 0,
              bytes |-> c.bytes \o Interval(FirstLeft(f), c.left)]

\* consume_data_stream, on the fragments F and the buffers B: a round for each
\* fragment at most.
Unread(F, B, size) == [fragments |-> F, buffers |-> B, left |-> size, bytes |-> <<>>]
Consumed(F, B, size) ==
    LET after[n \in 0 .. Len(F)] ==
            IF n = 0 THEN Unread(F, B, size) ELSE ReadFront(after[n - 1])
    IN  after[Len(F)]

NewBuffer == CHOOSE b \in 0 .. Cardinality(buffers) : b \notin buffers
Refused(call, code) ==
    /\ answer' = Answer(call, code, <<>>)
    /\ UNCHANGED <<sinks, buffers, sent, taken, dead_processes>>

Live(p) == p \in SinkProc \ dead_processes
Exists(k) == sinks[k].owner # "none"
Owns(p, k) == sinks[k].owner = p
TakesSize(size) == size # 0 /\ size <= MaxSize
SizeOfFront(F) == IF F = <<>> THEN 0 ELSE Head(F).actual

\* create_steady_datasink, for process p; writers are who may write to it.
CreateSteadyDatasink(p, k, writers) ==
    /\ Live(p)
    /\ ~Exists(k) /\ sent[k] = 0
    /\ sinks' = [sinks EXCEPT ![k] = [owner |-> p, writers |-> writers, fragments |-> <<>>]]
    /\ answer' = Answer("create", 1, <<>>)
    /\ UNCHANGED <<buffers, sent, taken, dead_processes>>

\* Call 23.  A buffer is allocated before the memory of the caller is read,
\* and handed to the fragment or freed.
WriteToSink(p, k, size, readable) ==
    /\ Live(p)
    /\ sent[k] + size <= MaxBytes       \* bounded
    /\ IF /\ Exists(k) /\ p \in sinks[k].writers
          /\ TakesSize(size) /\ Len(sinks[k].fragments) <= MaxFragments
          /\ readable
       THEN /\ sinks' = [sinks EXCEPT ![k].fragments =
                            Append(@, Fragment(sent[k] + 1, size, NewBuffer))]
            /\ buffers' = buffers \cup {NewBuffer}
            /\ sent' = [sent EXCEPT ![k] = @ + size]
            /\ answer' = Answer("write", 1, <<>>)
            /\ UNCHANGED <<taken, dead_processes>>
       ELSE Refused("write", 0)

\* Faulty variant: what could not be delivered is put back, in another buffer
\* than the one that was freed.
ReadFromSinkOrPutBack(p, k, size, writable) ==
    LET c == Consumed(sinks[k].fragments, buffers, size)
    IN  /\ Live(p) /\ Owns(p, k) /\ TakesSize(size) /\ c.bytes # <<>>
        /\ sinks' = [sinks EXCEPT ![k].fragments = IF writable THEN c.fragments ELSE @]
        /\ buffers' = c.buffers
        /\ taken' = [taken EXCEPT ![k] = @ + IF writable THEN Len(c.bytes) ELSE 0]
        /\ answer' = Answer("stream", Len(c.bytes), c.bytes)
        /\ UNCHANGED <<sent, dead_processes>>

\* Call 24.  The stream is consumed before it is known whether the memory of
\* the caller can be written.
ReadFromSink(p, k, size, writable) ==
    LET c == Consumed(sinks[k].fragments, buffers, size)
    IN  /\ Live(p)
        /\ IF ~Owns(p, k) \/ ~TakesSize(size) THEN Refused("stream", -1)
           ELSE IF c.bytes = <<>> THEN Refused("stream", 0)
           ELSE /\ sinks' = [sinks EXCEPT ![k].fragments = c.fragments]
                /\ buffers' = c.buffers
                /\ taken' = [taken EXCEPT ![k] = @ + Len(c.bytes)]
                /\ answer' = IF writable THEN Answer("stream", Len(c.bytes), c.bytes)
                             ELSE Answer("stream", -1, <<>>)
                /\ UNCHANGED <<sent, dead_processes>>

\* Call 25: the size of the front fragment, streamed bytes included.
FetchFragmentSize(p, k) ==
    /\ Live(p)
    /\ Refused("size", IF Owns(p, k) THEN SizeOfFront(sinks[k].fragments) ELSE -1)

\* Call 26: the whole front fragment, streamed bytes included.  It stays when
\* the memory of the caller cannot be written.
ReadFragment(p, k, writable) ==
    LET F == sinks[k].fragments
        f == Head(F)
    IN  /\ Live(p)
        /\ IF ~Owns(p, k) \/ F = <<>> \/ ~writable THEN Refused("block", -1)
           ELSE /\ sinks' = [sinks EXCEPT ![k].fragments = Tail(F)]
                /\ buffers' = buffers \ {f.buffer}
                /\ taken' = [taken EXCEPT ![k] = @ + f.remaining]
                /\ answer' = Answer("block", SizeOfFront(Tail(F)), Interval(f.first, f.actual))
                /\ UNCHANGED <<sent, dead_processes>>

\* 23 to 26 with handle 0, which no sink has: exists() claims it while entry 0
\* of the map is empty (see HashMap), and the kernel uses a null sink.  What
\* follows is unknown.
NamesNoSink(p) == Live(p) /\ Refused("undefined", 0)

\* kill_process deletes the sinks of the process; their buffers stay.
OwnerDies(p) ==
    /\ Live(p)
    /\ dead_processes' = dead_processes \cup {p}
    /\ sinks' = [k \in Sink |-> IF Owns(p, k) THEN NoSink ELSE sinks[k]]
    /\ answer' = Answer("dies", 0, <<>>)
    /\ UNCHANGED <<buffers, sent, taken>>

SinkNext ==
    /\ answer.call # "undefined"
    /\ \E p \in SinkProc :
        \/ OwnerDies(p)
        \/ NamesNoSink(p)
        \/ \E k \in Sink :
            \/ \E writers \in Grants : CreateSteadyDatasink(p, k, writers)
            \/ FetchFragmentSize(p, k)
            \/ \E able \in BOOLEAN :
                \/ ReadFragment(p, k, able)
                \/ \E size \in Sizes : WriteToSink(p, k, size, able) \/ ReadFromSink(p, k, size, able)

SinkSpec == SinkInit /\ [][SinkNext]_sinkVars
-----------------------------------------------------------------------------
HeldBy(k) == {sinks[k].fragments[i].buffer : i \in DOMAIN sinks[k].fragments}

\* Every variable has a value of its type.
SinkTypeOK ==
    /\ \A k \in Sink : Owns("none", k) => sinks[k] = NoSink
    /\ sent \in [Sink -> 0 .. MaxBytes] /\ taken \in [Sink -> 0 .. MaxBytes]
    /\ dead_processes \subseteq SinkProc

\* A fragment's buffer is freed with the fragment and never before: no two
\* fragments, of the same sink or of two, share a buffer, and none refers to a
\* freed one, however calls 23, 24 and 26 and deaths of owners interleave.
FragmentsOwnTheirBuffers ==
    /\ \A k \in Sink : HeldBy(k) \subseteq buffers
    /\ \A k \in Sink : Cardinality(HeldBy(k)) = Len(sinks[k].fragments)
    /\ \A k, l \in Sink : k # l => HeldBy(k) \cap HeldBy(l) = {}

\* A read of the stream that is answered returns the bytes that follow the
\* last ones that left the sink, and takes just these.
StreamReadsAreNext ==
    [][\A k \in Sink :
        taken'[k] > taken[k] /\ answer'.call = "stream" /\ answer'.bytes # <<>>
        => answer'.bytes = Interval(taken[k] + 1, taken'[k] - taken[k])]_sinkVars
=============================================================================
