----------------------------- MODULE PanelStream -----------------------------
(***************************************************************************)
(* handleRequest of server.go once more, byte by byte: chunks as they      *)
(* arrive on one connection, the local buffer, its splitting into frames   *)
(* and what the rules of cidparser.go make of a frame.  PanelServer has    *)
(* whole frames and the waits; here a frame is answered in one step.       *)
(*                                                                         *)
(* hpc is "read" when the handler is to call Read and "split" when it is   *)
(* in the loop that takes frames out of buffer.                            *)
(***************************************************************************)
EXTENDS CidRules

CONSTANTS
  Streams,     \* what a panel may send on a connection: sequences of cells
  RuleSets,    \* the configurations of the rules
  ChunkSize,   \* room of the slice given to Read
  MaxBuffer    \* maxBufferSize

ASSUME StreamAssumption ==
  /\ Streams \subseteq Seq(STRING)
  /\ ChunkSize \in Nat \ {0}
  /\ MaxBuffer \in Nat \ {0}

\* The codes of a configuration are cells of a frame, none the terminator.  (The
\* code reads any string from the file; one of another length than a code's four
\* bytes does not fit the frame and is not modelled.)
ASSUME CodesAssumption ==
  \A r \in RuleSets : \A c \in DOMAIN r.TestCodeMap :
    r.TestCodeMap[c] # Terminator

VARIABLES
  rules,     \* c.rules
  stream,    \* what the panel sends on this connection
  pos,       \* how much of it has been read
  buffer,    \* the local variable of the handler
  hpc,       \* its control point
  handled    \* history: the frames taken from buffer, the place of their
             \* terminators in stream, and what became of them

streamVars == <<rules, stream, pos, buffer, hpc, handled>>

\* What becomes of a frame: answered NACK for its form ("empty", "invalid",
\* "account") or because the queue is full, answered ACK as a heartbeat, or
\* rewritten and enqueued.
Fates == {"empty", "heartbeat", "invalid", "account", "full", "enqueued"}

StreamTypeOK ==
  /\ rules \in RuleSets
  /\ stream \in Streams
  /\ pos \in 0 .. Len(stream)
  /\ buffer \in Seq(STRING)
  /\ hpc \in {"read", "split"}
  /\ handled \in Seq([frame : Seq(STRING), fate : Fates, end : 1 .. Len(stream)])

StreamInit ==
  /\ rules \in RuleSets
  /\ stream \in Streams
  /\ pos = 0
  /\ buffer = <<>>
  /\ hpc = "read"
  /\ handled = <<>>

Terminators == {i \in 1 .. Len(buffer) : buffer[i] = Terminator}

Rest(i) == SubSeq(buffer, i + 1, Len(buffer))

\* The fates a frame can have.
FatesOf(m) ==
  IF m = <<>> THEN {"empty"}
  ELSE IF IsHeartBeat(m) THEN {"heartbeat"}
  ELSE IF ~IsMessageValid(m, rules) THEN {"invalid"}
  ELSE IF ~CanChange(m) THEN {"account"}
  ELSE {"full", "enqueued"}

\* Mutant: the buffer is emptied before each Read.
ReadBytes_Forgets ==
  /\ hpc = "read"
  /\ \E k \in 1 .. ChunkSize :
       /\ pos + k <= Len(stream)
       /\ buffer' = SubSeq(stream, pos + 1, pos + k)
       /\ pos' = pos + k
  /\ hpc' = "split"
  /\ UNCHANGED <<rules, stream, handled>>

\* Read returns what has arrived, as much as the chunk holds or less.
ReadBytes ==
  /\ hpc = "read"
  /\ \E k \in 1 .. ChunkSize :
       /\ pos + k <= Len(stream)
       /\ buffer' = buffer \o SubSeq(stream, pos + 1, pos + k)
       /\ pos' = pos + k
  /\ hpc' = "split"
  /\ UNCHANGED <<rules, stream, handled>>

\* bytes.IndexByte finds a terminator: the frame before it is handled.
HandleFrame(fate) ==
  /\ hpc = "split"
  /\ \E i \in Terminators :
       /\ \A j \in Terminators : i <= j
       /\ LET m == SubSeq(buffer, 1, i - 1)
          IN  /\ fate \in FatesOf(m)
              /\ handled' = Append(handled, [frame |-> m, fate |-> fate,
                                             end |-> pos - Len(buffer) + i])
       /\ buffer' = Rest(i)
  /\ UNCHANGED <<rules, stream, pos, hpc>>

\* No terminator is left; what stays in buffer is dropped if it is too long.
SplitEnds ==
  /\ hpc = "split"
  /\ Terminators = {}
  /\ buffer' = IF Len(buffer) > MaxBuffer THEN <<>> ELSE buffer
  /\ hpc' = "read"
  /\ UNCHANGED <<rules, stream, pos, handled>>

\* The event that is enqueued and stored for the last frame handled.
Rewritten(m) == ChangeAccountNumber(m, rules)

-----------------------------------------------------------------------------
(* Properties.                                                             *)

\* Where the message of the n-th frame begins: behind the terminator before it.
Start(n) == IF n = 1 THEN 0 ELSE handled[n - 1].end

\* However the bytes arrive, the n-th frame handled is what stands before the
\* n-th terminator sent, and an overflow of the buffer costs no message but the
\* overlong one: of that the end is taken for the frame.
FramesAreMessages ==
  \A n \in 1 .. Len(handled) :
    LET h == handled[n]
        size == h.end - 1 - Start(n)
    IN  /\ size \in Nat
        /\ stream[h.end] = Terminator
        /\ \A i \in Start(n) + 1 .. h.end - 1 : stream[i] # Terminator
        /\ Len(h.frame) <= size
        /\ \A i \in 1 .. Len(h.frame) :
             h.frame[i] = stream[h.end - 1 - Len(h.frame) + i]
        /\ size <= MaxBuffer => Len(h.frame) = size

\* Whatever is sent without a terminator, a handler holds no more than the
\* limit and a chunk.
BufferBounded == Len(buffer) <= MaxBuffer + ChunkSize

\* An event frame of the form the tests send.
IsEvent(m) ==
  /\ Len(m) = EventLength
  /\ m[1] = "5010"
  /\ \A i \in 1 .. 4 : IsDigit(Account(m)[i])

\* What the tests of server.go and cidparser.go say and the default rules do
\* not do: an event of 20 bytes is a valid message.
EventsAreValid ==
  \A n \in 1 .. Len(handled) : IsEvent(handled[n].frame) => handled[n].fate # "invalid"

\* The account of m after the shift, as long as it has four characters.
Fits(m) ==
  LET a == Shifted(Atoi(Account(m)), rules) IN a \in Int /\ a > -1000 /\ a < 10000

\* The readers agree with the rules about a rewritten event: the device it is
\* filed under, the device, code, group and zone that are shown are those of
\* the frame, the account shifted and the code replaced, and the station gets
\* one frame with nothing behind it.  (As long as the shifted account fits.)
ReadersAgree ==
  \A n \in 1 .. Len(handled) :
    LET m == handled[n].frame
        e == Rewritten(m)
    IN  handled[n].fate = "enqueued" /\ Fits(m) =>
          /\ ExtractDeviceID(e) = Shifted(Atoi(Account(m)), rules)
          /\ Atoi(Cut(e).device) = ExtractDeviceID(e)
          /\ Cut(e).code = ChangeTestCode(m[7], rules)
          /\ <<Cut(e).group, Cut(e).zone>> = <<m[8], m[9]>>
          /\ \A i \in 1 .. Len(e) : e[i] = Terminator <=> i = Len(e)
=============================================================================
