---------------------------- MODULE LineReceiver ----------------------------
(****************************************************************************)
(* UartLineReceiver: lines put together from the bytes of a serial port,    *)
(* which come in reads of any size.                                         *)
(*                                                                          *)
(* The stream is a sequence of bytes, of which only CR and LF matter; the   *)
(* terminal hands out a part of what has arrived with each read.  One read  *)
(* and one accepted byte are a step each, as other sources of the program   *)
(* can become ready in between.                                             *)
(****************************************************************************)
EXTENDS Naturals, Sequences

CONSTANTS MaxLineBytes,      \* m_maxLineBytes
          ReadSize           \* the size of rx

LF == 10
CR == 13

VARIABLES
    tty,         \* bytes that have arrived and not been read
    rx,          \* bytes of the last read that are still to be accepted
    line,        \* m_line
    stats,       \* m_stats
    lines,       \* what the handler has been given
    consumed     \* history: the bytes accepted

uart == <<tty, rx, line, stats, lines, consumed>>

\* The constructor makes a limit of 0 a limit of 1, so it is positive.
LineOK == MaxLineBytes \in Nat \ {0} /\ ReadSize \in Nat \ {0}

LineInit ==
    /\ tty = <<>> /\ rx = <<>> /\ line = <<>> /\ lines = <<>> /\ consumed = <<>>
    /\ stats = [bytes_received |-> 0, frames_received |-> 0, frames_dropped |-> 0,
                overflow_errors |-> 0, read_errors |-> 0]

--------------------------------------------------------------------------------
\* on_readable: a read returns some bytes, up to the size of the buffer.
ReadBytes ==
    /\ rx = <<>>
    /\ \E n \in 1..Len(tty) :
        /\ n <= ReadSize
        /\ rx' = SubSeq(tty, 1, n)
        /\ tty' = SubSeq(tty, n + 1, Len(tty))
        /\ stats' = [stats EXCEPT !.bytes_received = @ + n]
    /\ UNCHANGED <<line, lines, consumed>>

\* A read fails with neither EAGAIN nor EWOULDBLOCK: the port has been hung up, or a
\* signal came.  on_readable returns, and is called again while epoll reports the port.
ReadFails ==
    /\ rx = <<>>
    /\ stats' = [stats EXCEPT !.read_errors = @ + 1]
    /\ UNCHANGED <<tty, rx, line, lines, consumed>>

\* A newline delivers what has been collected, if anything has, and resets the line.
Newline ==
    IF line = <<>> THEN UNCHANGED <<line, lines, stats>>
    ELSE /\ lines' = Append(lines, line) /\ line' = <<>>
         /\ stats' = [stats EXCEPT !.frames_received = @ + 1]

\* Mutant: the byte that does not fit begins the next line.
Overflow_KeepsByte(c) ==
    /\ line' = <<c>>
    /\ stats' = [stats EXCEPT !.frames_dropped = @ + 1, !.overflow_errors = @ + 1]
    /\ UNCHANGED lines

\* The line is dropped, and the byte that did not fit with it.
Overflow(c) ==
    /\ line' = <<>>
    /\ stats' = [stats EXCEPT !.frames_dropped = @ + 1, !.overflow_errors = @ + 1]
    /\ UNCHANGED lines

\* accept_byte and, if it says that a line is complete, the handler
AcceptByte ==
    /\ rx # <<>>
    /\ rx' = Tail(rx)
    /\ consumed' = Append(consumed, Head(rx))
    /\ \/ Head(rx) = CR /\ UNCHANGED <<line, lines, stats>>
       \/ Head(rx) = LF /\ Newline
       \/ Head(rx) \notin {CR, LF} /\ Len(line) >= MaxLineBytes /\ Overflow(Head(rx))
       \/ /\ Head(rx) \notin {CR, LF} /\ Len(line) < MaxLineBytes
          /\ line' = Append(line, Head(rx))
          /\ UNCHANGED <<lines, stats>>
    /\ UNCHANGED tty

--------------------------------------------------------------------------------
(* What a stream of bytes is worth, whatever the reads it came in: for each *)
(* newline the text before it, up to the newline before, without carriage   *)
(* returns; of a text too long the bytes left over when whole overflows,    *)
(* which take one byte more than a line may have, are taken away; and       *)
(* nothing for an empty one.                                                *)

IsText(c) == c \notin {CR, LF}

\* the bytes after the last newline before position p
SinceNewline(s, p) ==
    LET breaks == {q \in 1..(p - 1) : s[q] = LF}
        from == IF breaks = {} THEN 0 ELSE CHOOSE q \in breaks : \A r \in breaks : r <= q
    IN  SelectSeq(SubSeq(s, from + 1, p - 1), IsText)

LeftOver(text) == SubSeq(text, Len(text) - (Len(text) % (MaxLineBytes + 1)) + 1, Len(text))

NotEmpty(text) == text # <<>>

LinesOf(s) ==
    SelectSeq([p \in 1..Len(s) |->
                  IF s[p] = LF THEN LeftOver(SinceNewline(s, p)) ELSE <<>>], NotEmpty)

\* The lines delivered are those of the stream, in order, however it was split into
\* reads, and the counters agree with them: every byte read is accounted for.
LinesAreTheStreams ==
    /\ lines = LinesOf(consumed)
    /\ line = LeftOver(SinceNewline(consumed, Len(consumed) + 1))
    /\ stats.bytes_received = Len(consumed) + Len(rx)
    /\ stats.frames_received = Len(lines)
    /\ stats.overflow_errors = stats.frames_dropped

\* Every line delivered is text of a length within the limit.
LinesWellFormed ==
    \A i \in DOMAIN lines :
        /\ Len(lines[i]) \in 1..MaxLineBytes
        /\ \A k \in DOMAIN lines[i] : IsText(lines[i][k])
================================================================================
