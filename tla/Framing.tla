------------------------------ MODULE Framing ------------------------------
(***************************************************************************)
(* The frame reader of one agent connection: the loop of                  *)
(* ThreadedUnixStreamHandler.handle in src/mortise/process-report.py up to *)
(* the point where a frame is handed on (a control frame to the flow table *)
(* code, a data frame to its flow's worker; Demux models what follows).    *)
(*                                                                         *)
(* The connection is a byte stream.  The agent writes frames, each a       *)
(* 4-byte big-endian length and a payload, in write() calls whose          *)
(* boundaries are its own business.  conn.recv(n) blocks until some byte   *)
(* is there, then returns min(n, available) bytes (an AF_UNIX stream       *)
(* socket copies across queued writes), or b"" once the agent has closed   *)
(* and everything is read.  Bytes are counted, not represented: a frame is *)
(* its kind, its payload length and its offset in the stream.              *)
(***************************************************************************)
EXTENDS Integers, Sequences, SequencesExt

CONSTANTS
    CtrlLens,     \* payload lengths of the JSON control frames the agent sends
    DataLens,     \* payload lengths of the binary data frames (808 in the agent)
    WriteCuts,    \* offsets inside a frame at which one write() of the agent may end
    GarbageLens,  \* lengths that 4 bytes taken from inside a payload decode to
    MaxFrames     \* bound: frames the agent writes on the connection

HDR       == 4    \* struct "!I": the length prefix
CTRL_MAX  == 64   \* handle: msg_len < 64 is a control frame
FMT_SIZE  == 8    \* struct.calcsize("<IhH"): the data frame header
ELEM_SIZE == 16   \* struct "<IIII": one ReportDataElem

ASSUME /\ CtrlLens \subseteq 1..(CTRL_MAX - 1)
       /\ DataLens \subseteq {n \in CTRL_MAX..2000 : (n - FMT_SIZE) % ELEM_SIZE = 0}
       /\ WriteCuts \subseteq Nat \ {0}
       /\ GarbageLens \subseteq Nat /\ MaxFrames \in Nat

VARIABLES
    frames,      \* Seq of [at, len]: the frames the agent began, at their stream offset
    wpos,        \* bytes the agent has written
    eof,         \* the agent has closed its end
    rpos,        \* bytes the handler has received
    pc,          \* "hdr" (conn.recv(4)), "body" (conn.recv(msg_len)),
                 \* "closed" (left the loop), "dead" (an exception ended handle)
    msg_len,     \* the length the handler unpacked
    src,         \* the frame whose length prefix the handler read, 0 if none
    dispatched   \* Seq of [frame, bytes]: the payloads handed on, in order

vars == <<frames, wpos, eof, rpos, pc, msg_len, src, dispatched>>

FrameEnd(f) == f.at + HDR + f.len
Avail == wpos - rpos
MinOf(a, b) == IF a <= b THEN a ELSE b

\* The agent is between frames: it has finished the last one it began.
AtBoundary == IF frames = <<>> THEN TRUE ELSE wpos = FrameEnd(Last(frames))

\* The frame whose length prefix starts at stream offset p, or 0.
FrameAt(p) == IF \E i \in 1..Len(frames) : frames[i].at = p
              THEN CHOOSE i \in 1..Len(frames) : frames[i].at = p ELSE 0

\* The payload handed on for frame i when it is read whole.
Whole(i) == [frame |-> i, bytes |-> frames[i].len]

-----------------------------------------------------------------------------
(* The agent.                                                              *)

\* The agent starts a frame: a control frame or a data frame.
Begin(len) ==
    /\ ~eof /\ AtBoundary /\ Len(frames) < MaxFrames
    /\ frames' = Append(frames, [at |-> wpos, len |-> len])
    /\ UNCHANGED <<wpos, eof, rpos, pc, msg_len, src, dispatched>>

\* One write() of the agent: the current frame up to a cut or to its end.
Write(cut) ==
    /\ ~AtBoundary
    /\ LET f == Last(frames) IN
       /\ cut \in {c \in WriteCuts : c < HDR + f.len} \cup {HDR + f.len}
       /\ f.at + cut > wpos
       /\ wpos' = f.at + cut
    /\ UNCHANGED <<frames, eof, rpos, pc, msg_len, src, dispatched>>

\* The agent closes the connection between two frames.
Close ==
    /\ ~eof /\ AtBoundary
    /\ eof' = TRUE
    /\ UNCHANGED <<frames, wpos, rpos, pc, msg_len, src, dispatched>>

-----------------------------------------------------------------------------
(* The handler thread.                                                     *)

\* The 4 bytes of a big-endian u32 read back as a little-endian one.
Swap32(n) ==
    (n % 256) * 2^24 + ((n \div 2^8) % 256) * 2^16
        + ((n \div 2^16) % 256) * 2^8 + ((n \div 2^24) % 256)

\* Mutant: the length prefix unpacked with "<I", the byte order of the
\* data frame's own fields, instead of "!I".
UnpackLengthLE(p) ==
    IF FrameAt(p) # 0 THEN {Swap32(frames[FrameAt(p)].len)} ELSE GarbageLens

\* struct.unpack("!I", data_length_packed)[0] of the 4 bytes at offset p:
\* the length the agent packed when p is where a frame starts, and bytes of
\* some payload read as a length otherwise.
UnpackLength(p) ==
    IF FrameAt(p) # 0 THEN {frames[FrameAt(p)].len} ELSE GarbageLens

\* Lines 156-159: data_length_packed = conn.recv(4); an empty read ends the
\* loop, fewer than 4 bytes make struct.unpack raise struct.error.
RecvHeader ==
    /\ pc = "hdr"
    /\ Avail > 0 \/ eof
    /\ IF Avail = 0
       THEN /\ pc' = "closed"
            /\ UNCHANGED <<rpos, msg_len, src>>
       ELSE IF Avail < HDR
       THEN /\ pc' = "dead" /\ rpos' = wpos
            /\ UNCHANGED <<msg_len, src>>
       ELSE /\ rpos' = rpos + HDR
            /\ src' = FrameAt(rpos)
            /\ msg_len' \in UnpackLength(rpos)
            /\ pc' = "body"
    /\ UNCHANGED <<frames, wpos, eof, dispatched>>

\* What handle does with the k bytes conn.recv(msg_len) returned:
\*  - msg_len < 64: json.loads, which raises on anything but a whole
\*    control payload;
\*  - otherwise struct.unpack(fmt, data[:8]) and
\*    struct.iter_unpack("<IIII", data[8:msg_len]), which raise struct.error
\*    when data holds less than the header or a partial element.
\* Parses(k) says whether they parse.
Parses(k) ==
    IF msg_len < CTRL_MAX
    THEN src # 0 /\ k = msg_len
    ELSE k >= FMT_SIZE /\ (k - FMT_SIZE) % ELEM_SIZE = 0

\* Lines 160-218: data = conn.recv(msg_len); "if data:" skips an empty read
\* (msg_len = 0, or the agent closed), an exception ends handle.
RecvBody ==
    /\ pc = "body"
    /\ Avail > 0 \/ eof \/ msg_len = 0
    /\ IF msg_len = 0 \/ Avail = 0
       THEN /\ pc' = "hdr"
            /\ UNCHANGED <<rpos, dispatched>>
       ELSE LET k == MinOf(msg_len, Avail) IN
            /\ rpos' = rpos + k
            /\ IF Parses(k)
               THEN /\ pc' = "hdr"
                    /\ dispatched' = Append(dispatched, [frame |-> src, bytes |-> k])
               ELSE pc' = "dead" /\ UNCHANGED dispatched
    /\ UNCHANGED <<frames, wpos, eof, msg_len, src>>

-----------------------------------------------------------------------------
Init ==
    /\ frames = <<>> /\ wpos = 0 /\ eof = FALSE
    /\ rpos = 0 /\ pc = "hdr" /\ msg_len = 0 /\ src = 0
    /\ dispatched = <<>>

Agent ==
    \/ \E len \in CtrlLens \cup DataLens : Begin(len)
    \/ \E cut \in WriteCuts \cup {HDR + l : l \in CtrlLens \cup DataLens} : Write(cut)
    \/ Close

Handler == RecvHeader \/ RecvBody

Next == Agent \/ Handler

\* The handler thread is scheduled whenever it can run; the agent owes
\* nothing: it may stop writing, or stop without closing.
Spec == Init /\ [][Next]_vars /\ WF_vars(Handler)

-----------------------------------------------------------------------------
\* Spec sections 6 and 7: the handler reads exactly the declared length, so
\* the payloads it hands on are the agent's frames, each whole, in the
\* order written; a short read is dropped rather than parsed.
FramesIntact ==
    \A j \in 1..Len(dispatched) : dispatched[j] = Whole(j)

\* Every frame the agent has written completely is eventually handed on:
\* the handler neither dies nor stalls on a frame, whatever the agent's
\* pace and however its writes fall.
FramesDelivered ==
    \A i \in 1..MaxFrames :
        (Len(frames) >= i /\ wpos >= FrameEnd(frames[i])) ~> Len(dispatched) >= i
=============================================================================
