------------------------------ MODULE IpcBytes ------------------------------
(***************************************************************************)
(* One pipe of pa1/ipcio.c byte by byte: send(), which writes the header   *)
(* and the payload at once, and receive(), which reads the one and then    *)
(* the other with ipc_read().  Every read() and write() is a step.         *)
(*                                                                         *)
(* If there is nothing to read after the header, ipc_read() reports an     *)
(* empty pipe, receive() forgets the header, and the next call takes the   *)
(* payload for a header.  If read() returns less than was asked for, the   *)
(* rest goes to the start of the buffer.  Both are harmless as long as     *)
(* read() finds whole messages, which the kernel promises for a write() of *)
(* at most PIPE_BUF = MAX_MESSAGE_LEN bytes.                               *)
(***************************************************************************)
EXTENDS Naturals, Sequences, Functions

CONSTANTS
  Msg,           \* messages that are told apart
  s_payload_len, \* the field of the header of each message
  HeaderLen,     \* sizeof(MessageHeader)
  MAX_PAYLOAD_LEN,
  Capacity,      \* bytes that the pipe holds
  EMPTY,         \* IPC_ERR_NONBLOCK_EMPTY
  GARBLED        \* a receive() that returns bytes that were not sent as one message

ASSUME IpcBytesAssumption ==
  /\ HeaderLen \in Nat \ {0}
  /\ MAX_PAYLOAD_LEN \in Nat
  /\ s_payload_len \in [Msg -> 0..MAX_PAYLOAD_LEN]
  /\ Capacity \in Nat /\ Capacity >= HeaderLen + MAX_PAYLOAD_LEN

VARIABLES
  nonblocking, \* ipc_use_nonblocking_io() has been called (pa2 to pa6, not pa1)
  pipe,        \* the bytes written and not yet read
  reading,     \* the part of the message that receive() reads
  total_read,  \* the bytes of it that it has
  buf,         \* the buffer it reads into, both parts
  returned,    \* what the last receive() has returned
  err          \* the result of the last send()

pipeVars == <<nonblocking, pipe, reading, total_read, buf, returned, err>>

\* Byte k of the header or of the payload of m.
Byte(m, part, k) == [of |-> m, part |-> part, at |-> k]

Bytes(m, part, len) == [k \in 1..len |-> Byte(m, part, k)]

\* What send() hands to write().
Encoded(m) == Bytes(m, "header", HeaderLen) \o Bytes(m, "payload", s_payload_len[m])

AnyByte == UNION {Range(Encoded(m)) : m \in Msg}

\* In particular, receive() never writes past a part of the buffer.
PipeTypeOK ==
  /\ nonblocking \in BOOLEAN
  /\ pipe \in Seq(AnyByte) /\ Len(pipe) <= Capacity
  /\ reading \in {"header", "payload"}
  /\ total_read \in 0..(HeaderLen + MAX_PAYLOAD_LEN)
  /\ \A part \in {"header", "payload"} : buf[part] \in Seq(AnyByte)
  /\ Len(buf["header"]) <= HeaderLen /\ Len(buf["payload"]) <= MAX_PAYLOAD_LEN
  /\ returned \in Msg \cup {EMPTY, GARBLED}
  /\ err \in {0, 1}

PipeInit ==
  /\ nonblocking \in BOOLEAN
  /\ pipe = <<>>
  /\ reading = "header"
  /\ total_read = 0
  /\ buf = [part \in {"header", "payload"} |-> <<>>]
  /\ returned = EMPTY
  /\ err = 0

-----------------------------------------------------------------------------
\* write() finds room for the message, or fails with EAGAIN in non-blocking mode.
ipc_write(m) ==
  /\ \/ /\ Len(pipe) + Len(Encoded(m)) <= Capacity
        /\ pipe' = pipe \o Encoded(m)
        /\ err' = 0
     \/ /\ Len(pipe) + Len(Encoded(m)) > Capacity
        /\ nonblocking
        /\ err' = 1
        /\ UNCHANGED pipe
  /\ UNCHANGED <<nonblocking, reading, total_read, buf, returned>>

-----------------------------------------------------------------------------
(* receive *)

\* The message whose length a header shows: it is in one field, here the last byte.
Shown(header) == header[HeaderLen].of

\* Mutant of PartLen: the payload is read with the size of a message.
PartLenOfMessage(part, header) ==
  IF part = "header" THEN HeaderLen ELSE HeaderLen + MAX_PAYLOAD_LEN

\* len of ipc_read().
PartLen(part, header) ==
  IF part = "header" THEN HeaderLen ELSE s_payload_len[Shown(header)]

\* n bytes from the pipe at the start of old, whatever it holds behind them.
Overwrite(old, n) == SubSeq(pipe, 1, n) \o SubSeq(old, n + 1, Len(old))

\* The message that a full buffer holds.
Decoded(b) ==
  LET m == Shown(b["header"])
  IN  IF Encoded(m) = SubSeq(b["header"], 1, HeaderLen)
                        \o SubSeq(b["payload"], 1, s_payload_len[m])
        THEN m ELSE GARBLED

\* read() returns what there is, as far as it was asked for.  Behind a header without
\* payload the second ipc_read() returns at once.
ReadSome ==
  LET len == PartLen(reading, buf["header"])
      n == IF Len(pipe) < len - total_read THEN Len(pipe) ELSE len - total_read
      b == [buf EXCEPT ![reading] = Overwrite(@, n)]
      last == reading = "payload" \/ PartLen("payload", b["header"]) = 0
  IN  /\ pipe # <<>>
      /\ pipe' = SubSeq(pipe, n + 1, Len(pipe))
      /\ buf' = b
      /\ IF total_read + n < len
           THEN total_read' = total_read + n /\ UNCHANGED <<reading, returned>>
           ELSE /\ total_read' = 0
                /\ reading' = IF last THEN "header" ELSE "payload"
                /\ returned' = IF last THEN Decoded(b) ELSE returned
      /\ UNCHANGED <<nonblocking, err>>

\* EAGAIN: ipc_read() goes on if it has part of what it wants, otherwise receive()
\* gives up, also after the header.  (A blocking read() waits.)
ReadNothing ==
  /\ nonblocking
  /\ pipe = <<>>
  /\ total_read = 0
  /\ reading' = "header"
  /\ returned' = EMPTY
  /\ UNCHANGED <<nonblocking, pipe, total_read, buf, err>>

PipeNext == (\E m \in Msg : ipc_write(m)) \/ ReadSome \/ ReadNothing

PipeSpec == PipeInit /\ [][PipeNext]_pipeVars

-----------------------------------------------------------------------------
(* Properties *)

\* b is the last byte of its message.
IsLast(b) == b = Encoded(b.of)[Len(Encoded(b.of))]

\* The messages whose last byte is in s.
Messages(s) ==
  LET among[n \in 0..Len(s)] ==
        IF n = 0 THEN <<>>
        ELSE IF IsLast(s[n]) THEN Append(among[n - 1], s[n].of)
        ELSE among[n - 1]
  IN  among[Len(s)]

\* The messages in the pipe: those whose last byte has not been read.
InPipe == Messages(pipe)

Queue == INSTANCE MessageQueue WITH queue <- InPipe

\* Whatever the capacity and the mode, receive() returns the messages that send()
\* accepted, whole, each once and in their order, and finds the pipe empty only if there
\* is no message in it.
QueueSpec == Queue!Spec
=============================================================================
