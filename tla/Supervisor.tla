----------------------------- MODULE Supervisor -----------------------------
(***************************************************************************)
(* The PC side: the dialog of SupervisorDlg.cpp and the serial port class  *)
(* of com_class.h.  Two threads share one port: com_thread waits for the   *)
(* driver's events and posts a message per event, the UI thread handles    *)
(* the messages by reading what the driver has and showing it.  The driver *)
(* (Windows) and the board are the environment.                            *)
(***************************************************************************)
EXTENDS Integers, Sequences

CONSTANTS
    BoardFrames,   \* the frames the board may send, each a sequence of bytes
    WholeFrames,   \* TRUE: the driver has a frame whole or not at all.
                   \* FALSE: it hands its bytes over one by one.
    LineErrors,    \* TRUE: the line may damage what it carries
    ReadMax,       \* 255 in OnComReceive: the most bytes one read takes
    MaxQueue,      \* bound: bytes the driver holds (8192 in com_class.h)
    MaxPosted      \* bound: ON_COM_RECEIVE messages waiting for the dialog

ASSUME SupervisorAssumption ==
    /\ BoardFrames \subseteq Seq(0 .. 255) \ {<<>>}
    /\ WholeFrames \in BOOLEAN
    /\ LineErrors \in BOOLEAN
    /\ ReadMax \in Nat \ {0}
    /\ MaxQueue \in Nat
    /\ MaxPosted \in Nat \ {0}

VARIABLES
    opened,      \* _com_handle is valid
    hwnd,        \* _notify_hwnd has been set
    thread,      \* com_thread: where it is in its loop
    ui,          \* the UI thread: what it is in the middle of
    posted,      \* ON_COM_RECEIVE messages in the dialog's queue
    cbInQue,     \* the byte count read() got from ClearCommError
    labels,      \* what the dialog shows
    wire,        \* rest of the frame the board is sending
    inq,         \* the driver's input queue
    rxEvent,     \* EV_RXCHAR has happened and no WaitCommEvent reported it
    errEvent,    \* the same for EV_ERR
    lineError,   \* the error ClearCommError will report, and clear
    unannounced, \* bytes may be waiting for which no event will come
    fresh,       \* a byte came in since the port was last opened
    tainted      \* the input queue was hit by a line error

appVars == <<opened, hwnd, thread, ui, posted, cbInQue, labels>>
driverVars == <<inq, rxEvent, errEvent, lineError>>
historyVars == <<unannounced, fresh, tainted>>
vars == <<appVars, wire, driverVars, historyVars>>

CMD_PIR == 1
CMD_ULTRASONIC_RANGE == 2
CMD_RELAY_1 == 3
CMD_RELAY_2 == 4
CMD_DHT == 5

LabelNames == {"PIR", "Distance", "Locker", "Fan", "Humid", "Temperature"}
Blank == <<>>                  \* a label's text is what it was made from
NoLabels == [l \in LabelNames |-> Blank]

TypeOK ==
    /\ {opened, hwnd, rxEvent, errEvent, lineError} \subseteq BOOLEAN
    /\ {unannounced, fresh, tainted} \subseteq BOOLEAN
    /\ thread \in {"none", "start", "wait", "err", "errRx", "rx", "ended"}
    /\ ui \in {"idle", "setHwnd", "purge", "read"}
    /\ posted \in 0 .. MaxPosted
    /\ cbInQue \in 0 .. ReadMax
    /\ labels \in [LabelNames -> Seq(0 .. 255)]
    /\ wire \in Seq(0 .. 255)
    /\ inq \in Seq(0 .. 255) /\ Len(inq) <= MaxQueue
    /\ opened <=> thread # "none"

Init ==
    /\ opened = FALSE /\ hwnd = FALSE
    /\ thread = "none" /\ ui = "idle" /\ posted = 0 /\ cbInQue = 0
    /\ labels = NoLabels
    /\ wire = <<>> /\ inq = <<>>
    /\ rxEvent = FALSE /\ errEvent = FALSE /\ lineError = FALSE
    /\ unannounced = FALSE /\ fresh = FALSE /\ tainted = FALSE

-----------------------------------------------------------------------------
\* The board, the line and the driver.

BoardSends ==
    /\ wire = <<>>
    /\ wire' \in BoardFrames
    /\ UNCHANGED <<appVars, driverVars, historyVars>>

\* How much the driver takes over at once.
Burst == IF WholeFrames THEN Len(wire) ELSE 1

\* com_thread has set its mask: what happens on the line raises an event.
Listens == thread \in {"wait", "err", "errRx", "rx"}

\* Bytes reach an open port.  Unless com_thread listens they raise no event;
\* if it does, one event speaks for all that waits.
BytesArrive ==
    /\ wire # <<>> /\ opened
    /\ Len(inq) + Burst <= MaxQueue
    /\ inq' = inq \o SubSeq(wire, 1, Burst)
    /\ wire' = SubSeq(wire, Burst + 1, Len(wire))
    /\ rxEvent' = (rxEvent \/ Listens)
    /\ unannounced' = ~Listens
    /\ fresh' = TRUE
    /\ UNCHANGED <<appVars, errEvent, lineError, tainted>>

\* They are lost while the port is closed.
BytesLost ==
    /\ wire # <<>> /\ ~opened
    /\ wire' = SubSeq(wire, Burst + 1, Len(wire))
    /\ UNCHANGED <<appVars, driverVars, historyVars>>

\* A byte (or a frame) is damaged: it is lost and the error latched.
BytesDamaged ==
    /\ LineErrors
    /\ wire # <<>> /\ opened
    /\ wire' = SubSeq(wire, Burst + 1, Len(wire))
    /\ lineError' = TRUE
    /\ errEvent' = (errEvent \/ Listens)
    /\ tainted' = (inq # <<>>)
    /\ UNCHANGED <<appVars, inq, rxEvent, unannounced, fresh>>

-----------------------------------------------------------------------------
\* com_thread.

\* SetCommMask(EV_RXCHAR | EV_ERR).
ThreadStarts ==
    /\ thread = "start"
    /\ thread' = "wait"
    /\ UNCHANGED <<opened, hwnd, ui, posted, cbInQue, labels, wire,
                   driverVars, historyVars>>

\* SetCommMask fails: com_thread returns.  The port stays open, and nobody
\* announces what arrives on it.
ThreadEnds ==
    /\ thread = "start"
    /\ thread' = "ended"
    /\ UNCHANGED <<opened, hwnd, ui, posted, cbInQue, labels, wire,
                   driverVars, historyVars>>

\* WaitCommEvent returns with every event that has happened.
ThreadWakes ==
    /\ thread = "wait"
    /\ rxEvent \/ errEvent
    /\ thread' = IF ~errEvent THEN "rx" ELSE IF rxEvent THEN "errRx" ELSE "err"
    /\ rxEvent' = FALSE
    /\ errEvent' = FALSE
    /\ UNCHANGED <<opened, hwnd, ui, posted, cbInQue, labels, wire,
                   inq, lineError, historyVars>>

\* Mutant: EV_RXCHAR is only looked at when there was no EV_ERR.
ThreadClearsError_Else ==
    /\ thread \in {"err", "errRx"}
    /\ lineError' = FALSE
    /\ thread' = "wait"
    /\ UNCHANGED <<opened, hwnd, ui, posted, cbInQue, labels, wire,
                   inq, rxEvent, errEvent, historyVars>>

\* EV_ERR: ClearCommError, whose report nobody looks at.
ThreadClearsError ==
    /\ thread \in {"err", "errRx"}
    /\ lineError' = FALSE
    /\ thread' = IF thread = "errRx" THEN "rx" ELSE "wait"
    /\ UNCHANGED <<opened, hwnd, ui, posted, cbInQue, labels, wire,
                   inq, rxEvent, errEvent, historyVars>>

\* Mutant: one message is enough.
ThreadNotifies_Once ==
    /\ thread = "rx"
    /\ posted < MaxPosted
    /\ lineError' = FALSE
    /\ posted' = IF inq # <<>> /\ hwnd /\ ui = "idle" THEN posted + 1 ELSE posted
    /\ unannounced' = (unannounced \/ ~hwnd)
    /\ thread' = "wait"
    /\ UNCHANGED <<opened, hwnd, ui, cbInQue, labels, wire,
                   inq, rxEvent, errEvent, fresh, tainted>>

\* EV_RXCHAR: ClearCommError for the byte count, which clears an error as
\* well; on_receive posts if the dialog has made itself known.
ThreadNotifies ==
    /\ thread = "rx"
    /\ posted < MaxPosted
    /\ lineError' = FALSE
    /\ posted' = IF inq # <<>> /\ hwnd THEN posted + 1 ELSE posted
    /\ unannounced' = (unannounced \/ ~hwnd)
    /\ thread' = "wait"
    /\ UNCHANGED <<opened, hwnd, ui, cbInQue, labels, wire,
                   inq, rxEvent, errEvent, fresh, tainted>>

-----------------------------------------------------------------------------
\* Showing a chunk: the body of OnComReceive after read(), and ProcessMsg.

\* szBuf was zeroed: past what was read there are zeros.
At(chunk, i) == IF i < Len(chunk) THEN chunk[i + 1] ELSE 0

\* Mutant: the two bytes before the value are not counted.
Message_Short(chunk, i) ==
    LET size == At(chunk, i + 1) % 256
    IN  [k \in 0 .. 5 |-> IF k < size THEN At(chunk, i + k) ELSE 0]

\* What a CBuffer made at i holds of the frame there: ProcessMsg copies
\* (U8)(length + 2) bytes; only the first six are ever looked at.
Message(chunk, i) ==
    LET size == (At(chunk, i + 1) + 2) % 256
    IN  [k \in 0 .. 5 |-> IF k < size THEN At(chunk, i + k) ELSE 0]

\* Mutant: the mark is not looked for.
MarkAt_Any(chunk, i) == TRUE

\* The next frame of the chunk is found only behind the mark FF FF.
MarkAt(chunk, i) ==
    LET last == i + At(chunk, i + 1)
    IN  /\ At(chunk, last + 3) = 255
        /\ At(chunk, last + 4) = 255
        /\ At(chunk, last + 5) > 0

\* MsgQueue as OnComReceive fills it: the messages from position i on.
Messages(chunk) ==
    LET from[i \in 0 .. (Len(chunk) + 260)] ==
            IF i >= Len(chunk) THEN <<>>
            ELSE <<Message(chunk, i)>>
                 \o IF MarkAt(chunk, i) THEN from[i + At(chunk, i + 1) + 4] ELSE <<>>
    IN  from[0]

\* fDistance > 0 of four bytes: neither zero, nor negative, nor a NaN.
PositiveFloat(b) ==
    /\ b[5] < 128
    /\ \E k \in 2 .. 5 : b[k] # 0
    /\ ~(b[5] = 127 /\ b[4] >= 128 /\ (b[4] > 128 \/ b[3] # 0 \/ b[2] # 0))

OnOff(v) == IF v = 0 THEN <<0>> ELSE <<1>>

\* ProcessMsg's switch.  Unknown commands show nothing.
Show(shown, b) ==
    CASE b[0] = CMD_PIR -> [shown EXCEPT !["PIR"] = OnOff(b[2])]
      [] b[0] = CMD_RELAY_1 -> [shown EXCEPT !["Locker"] = OnOff(b[2])]
      [] b[0] = CMD_RELAY_2 -> [shown EXCEPT !["Fan"] = OnOff(b[2])]
      [] b[0] = CMD_ULTRASONIC_RANGE ->
            IF PositiveFloat(b)
            THEN [shown EXCEPT !["Distance"] = <<b[2], b[3], b[4], b[5]>>]
            ELSE shown
      [] b[0] = CMD_DHT ->
            [shown EXCEPT
                !["Humid"] = IF b[2] # 0 THEN <<b[2], b[3]>> ELSE @,
                !["Temperature"] = IF b[4] # 0 THEN <<b[4], b[5]>> ELSE @]
      [] OTHER -> shown

\* ProcessMsg's own szBuf is zeroed once, not per message: what a short
\* message does not overwrite is left from the one before.
Overlay(old, chunkMessage, size) ==
    [k \in 0 .. 5 |-> IF k < size THEN chunkMessage[k] ELSE old[k]]

ShowAll(shown, messages) ==
    LET after[n \in 0 .. Len(messages)] ==
            IF n = 0 THEN [buf |-> [k \in 0 .. 5 |-> 0], shown |-> shown]
            ELSE LET b == messages[n]
                     buf == Overlay(after[n - 1].buf, b, (b[1] + 2) % 256)
                 IN  [buf |-> buf, shown |-> Show(after[n - 1].shown, buf)]
    IN  after[Len(messages)].shown

-----------------------------------------------------------------------------
\* The UI thread.

\* OnBnClickedButtonOpenPort: the labels are cleared, a port that is open is
\* closed first (com_thread may post once more before it ends: "late"), the
\* new one starts with empty queues and a new thread.
PortClosed(late) ==
    posted' = IF late /\ thread = "rx" /\ hwnd /\ inq # <<>> /\ posted < MaxPosted
              THEN posted + 1 ELSE posted

\* Mutant: the driver's queue is not purged.
OpenPort_NoPurge ==
    /\ ui = "idle"
    /\ \E late \in BOOLEAN : PortClosed(late)
    /\ labels' = NoLabels
    /\ opened' = TRUE /\ thread' = "start" /\ ui' = "setHwnd"
    /\ rxEvent' = FALSE /\ errEvent' = FALSE /\ lineError' = FALSE
    /\ unannounced' = FALSE /\ fresh' = FALSE /\ tainted' = FALSE
    /\ UNCHANGED <<hwnd, cbInQue, wire, inq>>

\* Mutant: the labels of the old port stay.
OpenPort_KeepsLabels ==
    /\ ui = "idle"
    /\ \E late \in BOOLEAN : PortClosed(late)
    /\ opened' = TRUE /\ thread' = "start" /\ ui' = "setHwnd"
    /\ inq' = <<>>
    /\ rxEvent' = FALSE /\ errEvent' = FALSE /\ lineError' = FALSE
    /\ unannounced' = FALSE /\ fresh' = FALSE /\ tainted' = FALSE
    /\ UNCHANGED <<hwnd, cbInQue, labels, wire>>

OpenPort ==
    /\ ui = "idle"
    /\ \E late \in BOOLEAN : PortClosed(late)
    /\ labels' = NoLabels
    /\ opened' = TRUE /\ thread' = "start" /\ ui' = "setHwnd"
    /\ inq' = <<>>
    /\ rxEvent' = FALSE /\ errEvent' = FALSE /\ lineError' = FALSE
    /\ unannounced' = FALSE /\ fresh' = FALSE /\ tainted' = FALSE
    /\ UNCHANGED <<hwnd, cbInQue, wire>>

\* Mutant: the thread of the port that was closed is not ended.
OpenPortFails_KeepsThread ==
    /\ ui = "idle"
    /\ \E late \in BOOLEAN : PortClosed(late)
    /\ labels' = NoLabels
    /\ opened' = FALSE
    /\ inq' = <<>>
    /\ rxEvent' = FALSE /\ errEvent' = FALSE /\ lineError' = FALSE
    /\ unannounced' = FALSE /\ fresh' = FALSE /\ tainted' = FALSE
    /\ UNCHANGED <<hwnd, thread, ui, cbInQue, wire>>

\* open() refuses a port number outside 1 .. 1024, and GetSerialPortList
\* lists whatever begins with COM: the labels are cleared, and the port that was
\* open stays open with its thread and its queue.
OpenPortRefused ==
    /\ ui = "idle"
    /\ labels' = NoLabels
    /\ UNCHANGED <<opened, hwnd, thread, ui, posted, cbInQue, wire,
                   driverVars, historyVars>>

\* CreateFile or CreateThread fails: a message box, and no port.
OpenPortFails ==
    /\ ui = "idle"
    /\ \E late \in BOOLEAN : PortClosed(late)
    /\ labels' = NoLabels
    /\ opened' = FALSE /\ thread' = "none"
    /\ inq' = <<>>
    /\ rxEvent' = FALSE /\ errEvent' = FALSE /\ lineError' = FALSE
    /\ unannounced' = FALSE /\ fresh' = FALSE /\ tainted' = FALSE
    /\ UNCHANGED <<hwnd, ui, cbInQue, wire>>

\* set_hwnd, which only follows a successful open.
SetHwnd ==
    /\ ui = "setHwnd"
    /\ hwnd' = TRUE
    /\ ui' = "idle"
    /\ UNCHANGED <<opened, thread, posted, cbInQue, labels, wire,
                   driverVars, historyVars>>

\* OnComReceive up to the answer of ClearCommError in read().
ReceiveMessage ==
    /\ ui = "idle" /\ posted > 0
    /\ posted' = posted - 1
    /\ \/ /\ ~opened \/ (~lineError /\ inq = <<>>)  \* read() returns 0
          /\ UNCHANGED <<ui, cbInQue, lineError>>
       \/ /\ opened /\ lineError
          /\ lineError' = FALSE
          /\ ui' = "purge"
          /\ UNCHANGED cbInQue
       \/ /\ opened /\ ~lineError /\ inq # <<>>
          /\ cbInQue' = IF Len(inq) < ReadMax THEN Len(inq) ELSE ReadMax
          /\ ui' = "read"
          /\ UNCHANGED lineError
    /\ UNCHANGED <<opened, hwnd, thread, labels, wire,
                   inq, rxEvent, errEvent, historyVars>>

\* PurgeComm after an error: read() returns 0.
Purge ==
    /\ ui = "purge"
    /\ ui' = "idle"
    /\ inq' = <<>>
    /\ tainted' = FALSE
    /\ UNCHANGED <<opened, hwnd, thread, posted, cbInQue, labels, wire,
                   rxEvent, errEvent, lineError, unannounced, fresh>>

\* ReadFile takes the bytes that were counted; later ones stay.
Read ==
    /\ ui = "read"
    /\ ui' = "idle"
    /\ labels' = ShowAll(labels, Messages(SubSeq(inq, 1, cbInQue)))
    /\ inq' = SubSeq(inq, cbInQue + 1, Len(inq))
    /\ unannounced' = (inq' # <<>> /\ (unannounced \/ cbInQue = ReadMax))
    /\ tainted' = (tainted /\ inq' # <<>>)
    /\ UNCHANGED <<opened, hwnd, thread, posted, cbInQue, wire,
                   rxEvent, errEvent, lineError, fresh>>

\* write() begins with a ClearCommError of its own: the UI thread is the third
\* to take the error.  What it then does with the output is module Settings'.
Write ==
    /\ ui = "idle"
    /\ opened
    /\ lineError' = FALSE
    /\ UNCHANGED <<appVars, wire, inq, rxEvent, errEvent, historyVars>>

-----------------------------------------------------------------------------
Environment == BoardSends \/ BytesArrive \/ BytesLost \/ BytesDamaged
ComThread == ThreadStarts \/ ThreadEnds \/ ThreadWakes \/ ThreadClearsError
             \/ ThreadNotifies
UIThread == OpenPort \/ OpenPortRefused \/ OpenPortFails \/ SetHwnd
            \/ ReceiveMessage \/ Purge \/ Read \/ Write

Next == Environment \/ ComThread \/ UIThread

Spec == Init /\ [][Next]_vars

\* A thread of Windows runs in the end, and a message that is posted reaches
\* its handler.  Nothing is assumed of the board, the line or the user.
FairSpec ==
    /\ Spec
    /\ WF_vars(ComThread)
    /\ WF_vars(SetHwnd) /\ WF_vars(ReceiveMessage) /\ WF_vars(Purge) /\ WF_vars(Read)

-----------------------------------------------------------------------------
\* Properties.

\* No notification is lost between the two threads: bytes wait in the driver
\* only while something is under way that ends in a read, unless they came
\* while nobody would announce them (before SetCommMask or without it, before
\* set_hwnd) or were left by a read that was full (com_class.h:546-579,
\* SupervisorDlg.cpp:291-297).
NoLostWakeup ==
    (opened /\ inq # <<>>) =>
        \/ rxEvent \/ thread \in {"rx", "errRx"}
        \/ posted > 0
        \/ ui \in {"read", "purge"}
        \/ unannounced

\* The dialog shows nothing the board has not sent since the port was opened,
\* though messages posted for the old port are still in its queue
\* (SupervisorDlg.cpp:275-297).
NothingFromBefore == labels # NoLabels => fresh

\* What the board's frames say about a label (SerialComm.c:77-139).
Said(l) ==
    LET about(cmd) == {frame \in BoardFrames : frame[1] = cmd}
    IN  CASE l = "PIR" -> {<<frame[3]>> : frame \in about(CMD_PIR)}
          [] l = "Locker" -> {<<frame[3]>> : frame \in about(CMD_RELAY_1)}
          [] l = "Fan" -> {<<frame[3]>> : frame \in about(CMD_RELAY_2)}
          [] l = "Distance" ->
                {SubSeq(frame, 3, 6) : frame \in about(CMD_ULTRASONIC_RANGE)}
          [] l = "Humid" -> {SubSeq(frame, 3, 4) : frame \in about(CMD_DHT)}
          [] l = "Temperature" -> {SubSeq(frame, 5, 6) : frame \in about(CMD_DHT)}

\* SerialProtocol.h:37 "Send Message from KL25Z board to PC via Serial Port":
\* every label shows a value that a message of the board carries.
NothingInvented == \A l \in LabelNames : labels[l] \in Said(l) \cup {Blank}

\* The driver's queue as frames, when it has them whole.
FramesIn(queue) ==
    LET from[i \in 0 .. (Len(queue) + 256)] ==
            IF i >= Len(queue) THEN <<>>
            ELSE LET next == i + At(queue, i + 1) + 2
                 IN  <<SubSeq(queue, i + 1, next)>> \o from[next]
    IN  from[0]

pending == FramesIn(inq) \o (IF wire = <<>> THEN <<>> ELSE <<wire>>)

\* What ProcessMsg makes of one whole frame in a zeroed buffer.
ShowFrame(shown, frame) ==
    Show(shown, [k \in 0 .. 5 |-> IF k < Len(frame) THEN frame[k + 1] ELSE 0])

V == INSTANCE View WITH Frames <- BoardFrames, Show <- ShowFrame

\* While the driver has frames whole, the dialog is a view of what the board
\* said.  Messages of a port that was closed, a purge, several frames in one
\* read, a read that races with new bytes: none of it repeats a frame, mixes
\* two, shows an older one after a newer one, or brings back what was there
\* before the port was opened (SupervisorDlg.cpp:272-420, com_class.h:347-386).
IsView == V!Spec

\* Bytes that were announced do not wait for ever: com_thread, the dialog's
\* message loop and read() go on until they are taken or the port is closed
\* (com_class.h:546-579, SupervisorDlg.cpp:393-420).
WaitingIsTaken ==
    (hwnd /\ inq # <<>> /\ ~unannounced) ~> (inq = <<>> \/ ui = "read")

\* com_class.h:357 and :359 say of read() "clear the error" and "clear the
\* input buffer": bytes of a queue hit by a line error are not read.
ErrorPurges == ui = "read" => ~tainted
=============================================================================
