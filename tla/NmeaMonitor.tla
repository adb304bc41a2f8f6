----------------------------- MODULE NmeaMonitor -----------------------------
(****************************************************************************)
(* The monitor of Chapter 3: a program around one epoll reactor with up to  *)
(* five sources: a signal descriptor, two timers, a UDP socket and a serial *)
(* port.                                                                    *)
(*                                                                          *)
(* PollOnce fixes the batch of sources to be dispatched; what a source then *)
(* finds is read when its turn comes, and each source reads until nothing   *)
(* is left.  Descriptors are level-triggered: what has been left is         *)
(* reported again.  A line is the sequence of its bytes; printing is        *)
(* appending to what has been printed.                                      *)
(****************************************************************************)
EXTENDS LineReceiver, SequencesExt

CONSTANTS
    Scenarios,           \* the sources asked for and what comes in:
                         \* [options : SUBSET Sources, uart : bytes, udp : datagrams]
    DatagramBytes,       \* the size of the receive buffer
    MaxSignals,          \* bound: signals; one for each read would keep it reading
    MaxExpirations,      \* bound: expirations of the periodic timer
    MaxReadErrors        \* bound: reads that fail

Sources == {"signal", "stats", "duration", "udp", "uart"}

\* parse_options insists on an input.
ScenariosOK ==
    \A s \in Scenarios :
        /\ "signal" \in s.options /\ s.options \subseteq Sources
        /\ s.options \cap {"udp", "uart"} # {}
        /\ "udp" \notin s.options => s.udp = <<>>
        /\ "uart" \notin s.options => s.uart = <<>>

VARIABLES
    options,         \* the sources the command line asks for
    phase,           \* "setup", "poll", "dispatch", "done"
    batch,           \* sources reported by epoll_wait and not yet dispatched
    current,         \* the source whose on_readable is running, or "none"
    stopRequested,
    coming,          \* [uart, udp]: what has not arrived yet
    socket,          \* datagrams that have arrived
    udpStats, udpLines, udpRead,      \* counters, lines printed, datagrams read
    signals,         \* a signal is pending in the signalfd
    expirations,     \* [stats, duration]: unread expirations of the timers
    total            \* total_expirations of the statistics timer; history: how often each
                     \* timer expired, and how many signals there were

udp == <<socket, udpStats, udpLines, udpRead>>
timers == <<signals, expirations, total>>
control == <<phase, batch, current, stopRequested>>
vars == <<uart, udp, timers, control, options, coming>>

Init ==
    /\ LineInit
    /\ phase = "setup" /\ batch = {} /\ current = "none" /\ stopRequested = FALSE
    /\ \E scenario \in Scenarios :
        /\ options = scenario.options
        /\ coming = [uart |-> scenario.uart, udp |-> scenario.udp]
    /\ socket = <<>> /\ udpLines = <<>> /\ udpRead = <<>>
    /\ udpStats = [bytes_received |-> 0, frames_received |-> 0, read_errors |-> 0]
    /\ signals = FALSE
    /\ expirations = [stats |-> 0, duration |-> 0]
    /\ total = [read |-> 0, happened |-> 0, duration |-> 0, signals |-> 0]

--------------------------------------------------------------------------------
(* The outside *)

Arrives ==
    \/ /\ coming.uart # <<>>
       /\ tty' = Append(tty, Head(coming.uart))
       /\ coming' = [coming EXCEPT !.uart = Tail(@)]
       /\ UNCHANGED <<rx, line, stats, lines, consumed, socket>>
    \/ /\ coming.udp # <<>> /\ phase # "setup"
       /\ socket' = Append(socket, Head(coming.udp))
       /\ coming' = [coming EXCEPT !.udp = Tail(@)]
       /\ UNCHANGED uart

InputArrives ==
    /\ Arrives
    /\ UNCHANGED <<udpStats, udpLines, udpRead, timers, control, options>>

\* A signal that is pending already is not queued again.
SignalArrives ==
    /\ phase # "setup" /\ ~signals /\ total.signals < MaxSignals
    /\ signals' = TRUE
    /\ total' = [total EXCEPT !.signals = @ + 1]
    /\ UNCHANGED <<uart, udp, expirations, control, options, coming>>

TimerExpires ==
    /\ phase # "setup"
    /\ \/ /\ "stats" \in options /\ total.happened < MaxExpirations
          /\ expirations' = [expirations EXCEPT !.stats = @ + 1]
          /\ total' = [total EXCEPT !.happened = @ + 1]
       \/ /\ "duration" \in options /\ total.duration = 0
          /\ expirations' = [expirations EXCEPT !.duration = 1]
          /\ total' = [total EXCEPT !.duration = 1]
    /\ UNCHANGED <<uart, udp, signals, control, options, coming>>

--------------------------------------------------------------------------------
(* main *)

\* every source is opened, armed and added to the reactor, or the program ends
Setup ==
    /\ phase = "setup"
    /\ phase' \in {"poll", "done"}
    /\ UNCHANGED <<uart, udp, timers, batch, current, stopRequested, options, coming>>

Ready(source) ==
    CASE source = "signal"   -> signals
      [] source = "stats"    -> expirations.stats > 0
      [] source = "duration" -> expirations.duration > 0
      [] source = "udp"      -> socket # <<>>
      [] source = "uart"     -> tty # <<>>

\* One turn of the loop, unless a stop has been requested.  A poll that times out, or
\* is interrupted, dispatches nothing.
PollOnce ==
    /\ phase = "poll" /\ ~stopRequested
    /\ batch' = {source \in options : Ready(source)}
    /\ batch' # {}
    /\ phase' = "dispatch"
    /\ UNCHANGED <<uart, udp, timers, current, stopRequested, options, coming>>

\* the loop ends; the last statistics are printed
LoopEnds ==
    /\ phase = "poll" /\ stopRequested
    /\ phase' = "done"
    /\ UNCHANGED <<uart, udp, timers, batch, current, stopRequested, options, coming>>

\* The next source of the batch, in whatever order epoll has listed them.
Dispatch ==
    /\ phase = "dispatch" /\ current = "none" /\ batch # {}
    /\ current' \in batch
    /\ batch' = batch \ {current'}
    /\ UNCHANGED <<uart, udp, timers, phase, stopRequested, options, coming>>

BatchDone ==
    /\ phase = "dispatch" /\ current = "none" /\ batch = {}
    /\ phase' = "poll"
    /\ UNCHANGED <<uart, udp, timers, batch, current, stopRequested, options, coming>>

--------------------------------------------------------------------------------
(* on_readable of each source: read until there is nothing left *)

Returns(source) ==
    /\ current = source /\ current' = "none"
    /\ UNCHANGED <<phase, batch, options, coming>>

Reads(source) ==
    /\ current = source
    /\ UNCHANGED <<phase, batch, current, options, coming>>

\* Mutant: the signal is read and does not stop the program.
ReadSignal_NoStop ==
    /\ Reads("signal") /\ signals
    /\ signals' = FALSE
    /\ UNCHANGED <<uart, udp, expirations, total, stopRequested>>

\* on_signal
ReadSignal ==
    /\ Reads("signal") /\ signals
    /\ signals' = FALSE /\ stopRequested' = TRUE
    /\ UNCHANGED <<uart, udp, expirations, total>>

SignalDrained ==
    /\ Returns("signal") /\ ~signals
    /\ UNCHANGED <<uart, udp, timers, stopRequested>>

\* on_stats_timer: a read takes all expirations since the last one.
ReadStatsTimer ==
    /\ Reads("stats") /\ expirations.stats > 0
    /\ total' = [total EXCEPT !.read = @ + expirations.stats]
    /\ expirations' = [expirations EXCEPT !.stats = 0]
    /\ UNCHANGED <<uart, udp, signals, stopRequested>>

\* on_duration_timer
ReadDurationTimer ==
    /\ Reads("duration") /\ expirations.duration > 0
    /\ expirations' = [expirations EXCEPT !.duration = 0]
    /\ stopRequested' = TRUE
    /\ UNCHANGED <<uart, udp, signals, total>>

TimerDrained ==
    /\ \/ Returns("stats") /\ expirations.stats = 0
       \/ Returns("duration") /\ expirations.duration = 0
    /\ UNCHANGED <<uart, udp, timers, stopRequested>>

\* The lines of one datagram: text between separators.
print_udp_datagram_lines(bytes) ==
    LET next(acc, c) == IF IsText(c) THEN [acc EXCEPT !.text = Append(@, c)]
                        ELSE [text |-> <<>>,
                              out |-> IF acc.text # <<>> THEN Append(acc.out, acc.text) ELSE acc.out]
        end == FoldLeft(next, [text |-> <<>>, out |-> <<>>], bytes)
    IN  IF end.text # <<>> THEN Append(end.out, end.text) ELSE end.out

\* A datagram longer than the buffer is cut.
Cut(bytes) == SubSeq(bytes, 1, IF Len(bytes) < DatagramBytes THEN Len(bytes) ELSE DatagramBytes)

ReadDatagram ==
    /\ Reads("udp") /\ socket # <<>> /\ Head(socket) # <<>>
    /\ socket' = Tail(socket)
    /\ udpRead' = Append(udpRead, Head(socket))
    /\ udpStats' = [udpStats EXCEPT !.bytes_received = @ + Len(Cut(Head(socket))),
                                    !.frames_received = @ + 1]
    /\ udpLines' = udpLines \o print_udp_datagram_lines(Cut(Head(socket)))
    /\ UNCHANGED <<uart, timers, stopRequested>>

\* An empty datagram ends the reading like an empty socket; what is behind it is
\* reported by the next poll.
ReadEmptyDatagram ==
    /\ Returns("udp") /\ socket # <<>> /\ Head(socket) = <<>>
    /\ socket' = Tail(socket)
    /\ udpRead' = Append(udpRead, <<>>)
    /\ UNCHANGED <<uart, timers, stopRequested, udpStats, udpLines>>

UdpDrained ==
    /\ Returns("udp") /\ socket = <<>>
    /\ UNCHANGED <<uart, udp, timers, stopRequested>>

UdpReadFails ==
    /\ Returns("udp") /\ udpStats.read_errors < MaxReadErrors
    /\ udpStats' = [udpStats EXCEPT !.read_errors = @ + 1]
    /\ UNCHANGED <<uart, socket, udpLines, udpRead, timers, stopRequested>>

ReadUart ==
    /\ Reads("uart")
    /\ ReadBytes \/ AcceptByte
    /\ UNCHANGED <<udp, timers, stopRequested>>

\* read returns 0, or EAGAIN
UartDrained ==
    /\ Returns("uart") /\ tty = <<>> /\ rx = <<>>
    /\ UNCHANGED <<uart, udp, timers, stopRequested>>

UartReadFails ==
    /\ Returns("uart") /\ stats.read_errors < MaxReadErrors
    /\ ReadFails
    /\ UNCHANGED <<udp, timers, stopRequested>>

OnReadable ==
    \/ ReadSignal \/ SignalDrained
    \/ ReadStatsTimer \/ ReadDurationTimer \/ TimerDrained
    \/ ReadDatagram \/ ReadEmptyDatagram \/ UdpDrained \/ UdpReadFails
    \/ ReadUart \/ UartDrained \/ UartReadFails

--------------------------------------------------------------------------------
Monitor == Setup \/ PollOnce \/ LoopEnds \/ Dispatch \/ BatchDone \/ OnReadable
Outside == InputArrives \/ SignalArrives \/ TimerExpires

Ended == phase = "done"

Next == Monitor \/ Outside

--------------------------------------------------------------------------------
(* Properties *)

\* The lines of a datagram, by definition: the longest stretches of text in it.
Stretches(bytes) ==
    LET stretch(a, b) == /\ \A k \in a..b : IsText(bytes[k])
                         /\ a = 1 \/ ~IsText(bytes[a - 1])
                         /\ b = Len(bytes) \/ ~IsText(bytes[b + 1])
        end(a) == CHOOSE b \in a..Len(bytes) : stretch(a, b)
    IN  SelectSeq([a \in 1..Len(bytes) |->
                      IF \E b \in a..Len(bytes) : stretch(a, b)
                      THEN SubSeq(bytes, a, end(a)) ELSE <<>>], NotEmpty)

\* What the monitor prints is, for each input, the lines that came in, in order,
\* once each, whatever the reads, the batches and the other sources; and its
\* statistics agree with it.
PrintsWhatCameIn ==
    /\ LinesAreTheStreams
    /\ udpLines = FlattenSeq([i \in DOMAIN udpRead |-> Stretches(Cut(udpRead[i]))])
    /\ udpStats.frames_received = Len(SelectSeq(udpRead, NotEmpty))
    /\ total.read + expirations.stats = total.happened
================================================================================
