----------------------------- MODULE SerialLink -----------------------------
(***************************************************************************)
(* SerialCommunicator of arduino_serial.hpp, with the client of            *)
(* arduino_test.cpp and a display at the other end of the line.            *)
(*                                                                         *)
(* The display is outside the repository.  It is modelled from how the     *)
(* code uses it: when it starts it sends #Screen:w,h#, and it answers      *)
(* every command with #Complete#.  The line may lose bytes on the way to   *)
(* the program, and a write() to it may fail.  A word of a frame is one    *)
(* symbol; what a command draws is not modelled, a command is its number.  *)
(***************************************************************************)
EXTENDS Naturals, Sequences, SequencesExt, FiniteSets

CONSTANTS
  PerScreen,   \* how many commands the client queues for a Screen frame
  MaxStarts,   \* how often the display starts
  MaxLost      \* how many bytes the line loses

ASSUME BoundAssumption == PerScreen \in Nat /\ MaxStarts \in Nat /\ MaxLost \in Nat

VARIABLES
  link,        \* the members of SerialCommunicator the parser and the sender use
  rested,      \* more than 1000 * 1000 / 115200 us since lastSendTime?
  toPC,        \* the bytes on their way to the program
  toDisplay,   \* the commands on their way to the display
  started,     \* how often the display has started
  executed,    \* the commands the display has executed
  failed,      \* the commands whose write() failed
  lost         \* how many bytes the line has lost

vars == <<link, rested, toPC, toDisplay, started, executed, failed, lost>>

Screen == <<"#", "Screen", ":", "w", ",", "h", "#">>
Complete == <<"#", "Complete", "#">>
MaxIssued == PerScreen * MaxStarts

\* initialize(): issued and calls are history, the commands queued and the calls
\* of recvFunction so far.
Init == /\ link = [commandIn |-> FALSE, argumentIn |-> FALSE, readString |-> <<>>,
                   command |-> <<>>, arguments |-> <<>>, sendQueue |-> <<>>, sendEnable |-> TRUE,
                   issued |-> 0, calls |-> <<>>]
        /\ rested = FALSE
        /\ toPC = <<>> /\ toDisplay = <<>>
        /\ started = 0 /\ executed = <<>> /\ failed = <<>> /\ lost = 0

-----------------------------------------------------------------------------
(* bool readStatus(), one byte at a time *)

\* print, rect, fill, hline and vline: each queues one command.
Enqueue(s, n) == [s EXCEPT !.sendQueue = @ \o [k \in 1 .. n |-> s.issued + k], !.issued = @ + n]

\* recvFunction(command, arguments): the client queues commands for a Screen
\* frame and ignores the others.
Receive(s) ==
  LET called == [s EXCEPT !.calls = Append(@, [command |-> s.command, arguments |-> s.arguments])]
  IN IF s.command = <<"Screen">> THEN Enqueue(called, PerScreen) ELSE called

\* What the # at the end does with the string read last.
Store(s) == CASE s.readString = <<>> -> s
              [] s.readString # <<>> /\ s.argumentIn -> [s EXCEPT !.arguments = Append(@, s.readString)]
              [] OTHER -> [s EXCEPT !.command = s.readString]

\* Mutant of Dispatch: argumentIn = false is missing.
DispatchArgumentIn(s) ==
  [ (IF s.command = <<"Complete">> THEN [s EXCEPT !.sendEnable = TRUE] ELSE Receive(s))
    EXCEPT !.readString = <<>>, !.commandIn = FALSE]

\* if (command == "Complete") sendEnable = true; else recvFunction(...)
Dispatch(s) ==
  [ (IF s.command = <<"Complete">> THEN [s EXCEPT !.sendEnable = TRUE] ELSE Receive(s))
    EXCEPT !.readString = <<>>, !.commandIn = FALSE, !.argumentIn = FALSE]

\* The # at the beginning: arguments keeps what it holds.
Open(s) == [s EXCEPT !.commandIn = TRUE, !.command = <<>>]

Parse(s, ch) ==
  CASE ch = "#" /\ s.commandIn -> Dispatch(Store(s))
    [] ch = "#" /\ ~s.commandIn -> Open(s)
    [] ch # "#" /\ ~s.commandIn -> s
    [] ch = "," /\ s.commandIn /\ s.argumentIn ->
         [s EXCEPT !.arguments = Append(@, s.readString), !.readString = <<>>]
    [] ch = ":" /\ s.commandIn /\ ~s.argumentIn ->
         [s EXCEPT !.argumentIn = TRUE, !.command = s.readString, !.readString = <<>>]
    [] OTHER -> [s EXCEPT !.readString = Append(@, ch)]

\* A call of update() is any number of ReadByte steps (none if poll() finds nothing
\* or read() fails) and then SendCommand, which may return at once.
ReadByte == /\ toPC # <<>>
            /\ toPC' = Tail(toPC)
            /\ link' = Parse(link, Head(toPC))
            /\ UNCHANGED <<rested, toDisplay, started, executed, failed, lost>>

-----------------------------------------------------------------------------
(* void sendCommand() *)

\* Mutants of Sent: sendEnable = false, or sendQueue.pop(), is missing.
SentEnabled(s) == [s EXCEPT !.sendQueue = Tail(@)]
SentKept(s) == [s EXCEPT !.sendEnable = FALSE]

Sent(s) == [s EXCEPT !.sendQueue = Tail(@), !.sendEnable = FALSE]

\* The result of write() is ignored.  The descriptor does not block, so a full buffer
\* of the device refuses the command or cuts it off before its newline: the display
\* executes it neither way.
SendCommand == /\ link.sendEnable
               /\ rested
               /\ link.sendQueue # <<>>
               /\ \/ toDisplay' = Append(toDisplay, Head(link.sendQueue)) /\ UNCHANGED failed
                  \/ failed' = Append(failed, Head(link.sendQueue)) /\ UNCHANGED toDisplay
               /\ link' = Sent(link)
               /\ rested' = FALSE
               /\ UNCHANGED <<toPC, started, executed, lost>>

\* Time passes.
Rest == /\ ~rested
        /\ rested' = TRUE
        /\ UNCHANGED <<link, toPC, toDisplay, started, executed, failed, lost>>

-----------------------------------------------------------------------------
(* The display and the line *)

Start == /\ started < MaxStarts
         /\ started' = started + 1
         /\ toPC' = toPC \o Screen
         /\ UNCHANGED <<link, rested, toDisplay, executed, failed, lost>>

Execute == /\ toDisplay # <<>>
           /\ toDisplay' = Tail(toDisplay)
           /\ executed' = Append(executed, Head(toDisplay))
           /\ toPC' = toPC \o Complete
           /\ UNCHANGED <<link, rested, started, failed, lost>>

Lose == /\ lost < MaxLost
        /\ \E k \in DOMAIN toPC : toPC' = RemoveAt(toPC, k)
        /\ lost' = lost + 1
        /\ UNCHANGED <<link, rested, toDisplay, started, executed, failed>>

Next == ReadByte \/ SendCommand \/ Rest \/ Start \/ Execute \/ Lose

Spec == Init /\ [][Next]_vars

\* The client calls update() all the time, time passes, and the display works.
FairSpec == /\ Spec
            /\ WF_vars(ReadByte)
            /\ WF_vars(SendCommand)
            /\ WF_vars(Rest)
            /\ WF_vars(Execute)

-----------------------------------------------------------------------------
\* Answers on their way, whole or cut.
Answers == Cardinality({k \in DOMAIN toPC : toPC[k] = "Complete"})

\* However the bytes are split over reads and whatever is lost, at most one command is
\* unanswered, and none when the program may send: a false answer is never made up from
\* the rest of other frames, and after a failed write no other command is sent
\* (arduino_serial.hpp:50-69, 84-138).
Unanswered == Len(toDisplay) + Answers + Len(failed)
OneAtATime == /\ Unanswered <= 1
              /\ link.sendEnable => Unanswered = 0

\* The display executes the commands in the order they were queued, each once.  Only
\* the last one written may be missing, if its write failed (arduino_serial.hpp:63-66).
InOrder == executed \o toDisplay \o failed \o link.sendQueue = [k \in 1 .. link.issued |-> k]

\* Nothing but a lost byte or a failed write stops the link for good: otherwise, while the
\* program may not send, the answer that lets it is to come from the display, is on the
\* line or in the parser, whatever other frames it meets there
\* (arduino_serial.hpp:50-69, 84-138).
Loss == lost > 0 \/ failed # <<>>
StopsOnlyByLoss == ~link.sendEnable /\ ~Loss =>
                     toDisplay # <<>> \/ Answers > 0 \/ link.readString = <<"Complete">>

\* As long as no byte is lost, recvFunction is called once for each Screen frame
\* and for nothing else, wherever the reads cut the frames.  Its arguments are those
\* of every frame so far, as nothing clears them (arduino_serial.hpp:84-138).
FramesSeen == Cardinality({k \in DOMAIN toPC : toPC[k] = "Screen"})
EachFrameOnce == lost = 0 /\ ~link.commandIn =>
                   /\ Len(link.calls) = started - FramesSeen
                   /\ \A k \in DOMAIN link.calls : /\ link.calls[k].command = <<"Screen">>
                                                  /\ Len(link.calls[k].arguments) = 2 * k

\* As long as no byte is lost and no write fails, every command queued is executed
\* (arduino_serial.hpp:50-69, 99-102).
AllExecuted == \A k \in 1 .. MaxIssued :
                 (link.issued >= k /\ ~Loss) ~> (Len(executed) >= k \/ Loss)
=============================================================================
