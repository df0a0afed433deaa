---------------------------- MODULE ChipStreams ----------------------------
(***************************************************************************)
(* get-chipio-stream-ports and get-chipio-stream-data: what they print of   *)
(* the audio streams that the firmware of the 8051 keeps in tables.         *)
(*                                                                         *)
(* The first and the last port of a stream are bytes of two tables, one     *)
(* right behind the other; a stream without ports has \hff in one of them.  *)
(* The tools take each table for one entry longer than the distance between *)
(* the two, so that their last entry of the first table is the first of the *)
(* second.  A third table has a few bytes for each stream.                  *)
(*                                                                         *)
(* The firmware is not part of the repository: it may write any byte of its *)
(* tables between two bytes that a tool reads.  One access to exram, or one *)
(* to the router on the HIC bus, is one step here; Exram8051 and HicBus     *)
(* take them apart.                                                        *)
(*                                                                         *)
(* A definition marked "Fault" is a wrong version of the one that follows,  *)
(* kept to show which property would notice it.                             *)
(***************************************************************************)
EXTENDS Integers, Sequences

CONSTANTS
    STREAMS,    \* entries that the tools read          (code: \h26)
    FIELDS,     \* bytes of an entry of the third table (code: \h0a)
    MAX_PORT,   \* highest port of the router
    WORDS,      \* values of an unsigned counter; a router address has four
                \* times as many                        (code: 2^32 for both)
    MAX_CHANGES \* bound: bytes the firmware writes during a run

ASSUME StreamsAssumption ==
    /\ STREAMS \in Nat \ {0, 1} /\ FIELDS \in Nat \ {0, 1}
    /\ MAX_PORT \in Nat /\ WORDS \in Nat /\ WORDS > MAX_PORT + 1
    /\ MAX_CHANGES \in Nat

Port == 0 .. MAX_PORT
None == MAX_PORT + 1        \* \hff

(* The tables have an entry for each of these.                             *)
Entry == 0 .. STREAMS - 2

Tools == {"ports", "data"}

VARIABLES
    first, last,    \* exram: the tables of ports
    behind,         \* exram: the byte behind them
    info,           \* exram: the third table, by address
    tool,           \* tool: which of the two it is
    pc,             \* tool: what it does next
    i,              \* tool: bytes of the table read, or the stream it is at
    start, end,     \* tool: its copies of the tables of ports
    buf,            \* tool: its copy of the third table
    curAddr,        \* tool: the next port, as an address of the router
    k, cnt,         \* tool: ports printed of the stream; how far its last is off
    shown,          \* tool: what it has printed, in order
    touched,        \* history: streams whose bytes were written
    changes         \* history: bytes written

tables == <<first, last, behind, info, touched, changes>>
copies == <<start, end, buf>>
loop   == <<curAddr, k, cnt>>
vars   == <<tables, tool, pc, i, copies, loop, shown>>

(* Bytes of the third table are told apart by their addresses; a byte the   *)
(* firmware has written since is another.                                  *)
InfoAddr == 0 .. STREAMS * FIELDS - 1
InfoOf(s, f) == s * FIELDS + f
Written  == STREAMS * FIELDS

Init ==
    /\ \E ports \in [Entry -> { p \in Port \X Port : p[1] <= p[2] } \cup {<<None, None>>}] :
          /\ first = [s \in Entry |-> ports[s][1]]
          /\ last = [s \in Entry |-> ports[s][2]]
    /\ behind \in {0, None}
    /\ info = [a \in InfoAddr |-> a]
    /\ tool \in Tools
    /\ pc = IF tool = "data" THEN "info" ELSE "start"
    /\ i = 0
    /\ start = <<>> /\ end = <<>> /\ buf = <<>>
    /\ curAddr = 0 /\ k = 0 /\ cnt = 0
    /\ shown = <<>>
    /\ touched = {} /\ changes = 0

-----------------------------------------------------------------------------
(* The bytes that the tools read as entry s of the two tables.             *)
FirstAt(s) == IF s \in Entry THEN first[s] ELSE last[0]
LastAt(s)  == IF s \in Entry THEN last[s] ELSE behind

(* One byte of a range that is n bytes long, and what is read after it.    *)
ReadByte(n, next) ==
    /\ i' = IF i + 1 < n THEN i + 1 ELSE 0
    /\ pc' = IF i + 1 < n THEN pc ELSE next

ReadInfo ==
    /\ pc = "info"
    /\ buf' = Append(buf, info[i])
    /\ ReadByte(STREAMS * FIELDS, "start")
    /\ UNCHANGED <<tables, tool, start, end, loop, shown>>

ReadStart ==
    /\ pc = "start"
    /\ start' = Append(start, FirstAt(i))
    /\ ReadByte(STREAMS, "end")
    /\ UNCHANGED <<tables, tool, end, buf, loop, shown>>

ReadEnd ==
    /\ pc = "end"
    /\ end' = Append(end, LastAt(i))
    /\ ReadByte(STREAMS, "print")
    /\ UNCHANGED <<tables, tool, start, buf, loop, shown>>

-----------------------------------------------------------------------------
(* Both ports of the stream that the tool is at, in its copies.            *)
StartPort == start[i + 1]
EndPort   == end[i + 1]

HasPorts(s) == start[s + 1] # None /\ end[s + 1] # None

NextStream ==
    /\ i' = i + 1
    /\ pc' = IF i + 1 < STREAMS THEN "print" ELSE "done"

(* The bytes of an entry; the first is not shown.                          *)
Fields(s) == [f \in 1 .. FIELDS - 1 |-> buf[InfoOf(s, f) + 1]]

(* print_stream_data, one stream.                                          *)
PrintData ==
    /\ tool = "data" /\ pc = "print"
    /\ shown' = Append(shown, [stream |-> i, fields |-> Fields(i),
                               ports |-> IF HasPorts(i) THEN <<StartPort, EndPort>> ELSE <<>>])
    /\ NextStream
    /\ UNCHANGED <<tables, tool, copies, loop>>

(* check_stream_ports, one stream, and print_stream_ports up to its loop.  *)
Distance == (EndPort - StartPort) % WORDS

SkipStream ==
    /\ tool = "ports" /\ pc = "print" /\ ~HasPorts(i)
    /\ NextStream
    /\ UNCHANGED <<tables, tool, copies, loop, shown>>

PrintStream ==
    /\ tool = "ports" /\ pc = "print" /\ HasPorts(i)
    /\ curAddr' = 4 * StartPort
    /\ cnt' = Distance /\ k' = 0
    /\ shown' = Append(shown, [stream |-> i, fields |-> <<>>, ports |-> <<>>])
    /\ pc' = "port"
    /\ UNCHANGED <<tables, tool, i, copies>>

(* The loop: a word is shown for what the router has at its address.  Only  *)
(* so many of them are kept, which is more than are shown of any stream.    *)
Kept(ports, p) == IF Len(ports) < WORDS THEN Append(ports, p) ELSE ports

\* Fault: the last port is left out.
MorePortsLess == k < cnt
\* Fault: "up to and including" the distance.
MorePortsUpTo == k <= cnt
MorePorts == k < (cnt + 1) % WORDS

PrintPort ==
    /\ pc = "port" /\ MorePorts
    /\ shown' = [shown EXCEPT ![Len(shown)].ports = Kept(@, curAddr \div 4)]
    /\ curAddr' = (curAddr + 4) % (4 * WORDS)
    /\ k' = (k + 1) % WORDS
    /\ UNCHANGED <<tables, tool, pc, i, copies, cnt>>

PortsPrinted ==
    /\ pc = "port" /\ ~MorePorts
    /\ NextStream
    /\ UNCHANGED <<tables, tool, copies, loop, shown>>

Tool == \/ ReadInfo \/ ReadStart \/ ReadEnd \/ PrintData \/ SkipStream \/ PrintStream
        \/ PrintPort \/ PortsPrinted

-----------------------------------------------------------------------------
(* The firmware routes a stream, takes it off, or changes it.  What it does *)
(* after the tables have been read makes no difference to the tools.       *)
Firmware ==
    /\ pc \in {"info", "start", "end"} /\ changes < MAX_CHANGES
    /\ changes' = changes + 1
    /\ \E s \in Entry :
          /\ touched' = touched \cup {s}
          /\ \/ \E p \in Port \cup {None} : first' = [first EXCEPT ![s] = p]
                /\ UNCHANGED <<last, info>>
             \/ \E p \in Port \cup {None} : last' = [last EXCEPT ![s] = p]
                /\ UNCHANGED <<first, info>>
             \/ \E f \in 0 .. FIELDS - 1 : info' = [info EXCEPT ![InfoOf(s, f)] = Written]
                /\ UNCHANGED <<first, last>>
    /\ UNCHANGED <<behind, tool, pc, i, copies, loop, shown>>

Next == Tool \/ Firmware

Spec == Init /\ [][Next]_vars

FairSpec == Spec /\ WF_vars(Tool)

-----------------------------------------------------------------------------
(***************************************************************************)
(* Properties.                                                             *)
(***************************************************************************)
Routed(s) == first[s] # None /\ last[s] # None

(* What each tool should print of stream s, if it prints anything of it and *)
(* nothing of it changes.                                                  *)
Wanted(s) ==
    IF tool = "data"
    THEN [stream |-> s,
          fields |-> [f \in 1 .. FIELDS - 1 |-> InfoOf(s, f)],
          ports  |-> IF Routed(s) THEN <<first[s], last[s]>> ELSE <<>>]
    ELSE [stream |-> s, fields |-> <<>>,
          ports  |-> [n \in 1 .. last[s] - first[s] + 1 |-> first[s] + n - 1]]

(* The stream is shown once, as wanted, or it is left out.                 *)
ShownFor(s) == { n \in DOMAIN shown : shown[n].stream = s }

ShownAsWanted(s) ==
    IF tool = "data" \/ Routed(s)
    THEN \E n \in DOMAIN shown : ShownFor(s) = {n} /\ shown[n] = Wanted(s)
    ELSE ShownFor(s) = {}

(* Whatever the firmware does to the others, a stream it leaves alone is    *)
(* shown once, with all its ports and no others, or is left out by          *)
(* get-chipio-stream-ports if it has none.  This is said of the streams the *)
(* tables have room for; one more is read, and its first port is the last   *)
(* one of stream 0.                                                        *)
StableIsShown == pc = "done" => \A s \in Entry \ touched : ShownAsWanted(s)

(* The tools come to an end, also when the ports of a stream were read      *)
(* while they changed, the last is before the first, and the distance,      *)
(* which is unsigned, is close to all the values of a counter.              *)
PrintingEnds == <>(pc = "done")

-----------------------------------------------------------------------------
(***************************************************************************)
(* The inductive invariant of the proofs.                                  *)
(***************************************************************************)
Byte == Port \cup {None}

(* The types of the variables.                                             *)
TypeOK ==
    /\ first \in [Entry -> Byte] /\ last \in [Entry -> Byte] /\ behind \in {0, None}
    /\ info \in [InfoAddr -> 0 .. Written]
    /\ touched \subseteq Entry /\ changes \in 0 .. MAX_CHANGES
    /\ tool \in Tools
    /\ pc \in {"info", "start", "end", "print", "port", "done"}
    /\ i \in Nat
    /\ start \in Seq(Byte) /\ end \in Seq(Byte) /\ buf \in Seq(0 .. Written)
    /\ curAddr \in 0 .. 4 * WORDS - 1
    /\ k \in 0 .. WORDS - 1 /\ cnt \in 0 .. WORDS - 1
    /\ shown \in Seq([stream : 0 .. STREAMS - 1, fields : Seq(0 .. Written),
                       ports : Seq(0 .. WORDS - 1)])

(* How far the copies go.                                                  *)
Progress ==
    /\ pc = "info"  => /\ tool = "data" /\ i < STREAMS * FIELDS
                       /\ Len(buf) = i /\ start = <<>> /\ end = <<>>
    /\ pc # "info" /\ tool = "data" => Len(buf) = STREAMS * FIELDS
    /\ pc = "start" => i < STREAMS /\ Len(start) = i /\ end = <<>>
    /\ pc = "end"   => i < STREAMS /\ Len(start) = STREAMS /\ Len(end) = i
    /\ pc \in {"print", "port"} => i < STREAMS /\ Len(start) = STREAMS /\ Len(end) = STREAMS
    /\ pc = "port"  => tool = "ports"
    /\ pc = "done"  => i = STREAMS
    /\ pc \in {"info", "start", "end"} => shown = <<>>

(* The bytes of a stream the firmware leaves alone, and the copies of them. *)
BytesAreFirst == \A s \in Entry \ touched :
    /\ \/ first[s] \in Port /\ last[s] \in Port /\ first[s] <= last[s]
       \/ first[s] = None /\ last[s] = None
    /\ \A f \in 0 .. FIELDS - 1 : info[InfoOf(s, f)] = InfoOf(s, f)

CopiesAreTrue == \A s \in Entry \ touched :
    /\ s < Len(start) => start[s + 1] = first[s]
    /\ s < Len(end) => end[s + 1] = last[s]
    /\ \A f \in 0 .. FIELDS - 1 :
          InfoOf(s, f) < Len(buf) => buf[InfoOf(s, f) + 1] = InfoOf(s, f)

(* Streams are shown in their order, and the loop adds to the last of them. *)
ShownInOrder ==
    /\ \A n \in DOMAIN shown :
          shown[n].stream < i \/ (pc = "port" /\ n = Len(shown) /\ shown[n].stream = i)
    /\ pc = "port" => Len(shown) > 0 /\ shown[Len(shown)].stream = i

(* The loop has shown the first k ports of the stream it is at.            *)
LoopIsTrue == pc = "port" /\ i \in Entry \ touched =>
    /\ Routed(i)
    /\ cnt = last[i] - first[i] /\ k <= cnt + 1
    /\ curAddr = 4 * (first[i] + k)
    /\ shown[Len(shown)] = [stream |-> i, fields |-> <<>>,
                            ports |-> [n \in 1 .. k |-> first[i] + n - 1]]

SoFarAsWanted == pc \in {"print", "port", "done"} =>
    \A s \in Entry \ touched : s < i => ShownAsWanted(s)

IInv == /\ TypeOK /\ Progress /\ BytesAreFirst /\ CopiesAreTrue
        /\ ShownInOrder /\ LoopIsTrue /\ SoFarAsWanted
=============================================================================
