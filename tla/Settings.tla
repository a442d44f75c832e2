-------------------------------- MODULE Settings --------------------------------
(***************************************************************************)
(* The way of a setting from the dialog's boxes to the line: OnBnClickedOk *)
(* with its three updates (SupervisorDlg.cpp) and write() of com_class.h.  *)
(* The UI thread runs them; com_thread and the line meet them only in the  *)
(* error that ClearCommError reports once, and the port's driver takes the *)
(* messages from there.  The board of this module is one that would take   *)
(* every message; what the real one makes of them is module Controller's.  *)
(*                                                                         *)
(* A setting is counted in hundredths, the two decimals of its box.        *)
(***************************************************************************)
EXTENDS Integers, Sequences

CONSTANTS
    HumidValues,        \* what the user may put into the boxes
    TemperatureValues,
    DistanceValues,
    MaxQueued           \* bound: messages the driver holds; a click adds three

SetKinds == {"distance", "humid", "temperature"}
BoxValues ==
    [distance |-> DistanceValues, humid |-> HumidValues,
     temperature |-> TemperatureValues]

\* m_fDistance, m_fHumid and m_fTemperature as the constructor leaves them;
\* OnInitDialog puts them into the boxes.
Defaults == [distance |-> 2000, humid |-> 4000, temperature |-> 2100]

\* Below 16 the rounding of Carried's product would matter, from 256 on a
\* byte's width.
Hundredths == 1600 .. 25599

ASSUME SettingsAssumption ==
    /\ \A s \in SetKinds : BoxValues[s] \subseteq Hundredths
    /\ MaxQueued \in Nat

VARIABLES
    opened,           \* the port is open
    lineError,        \* the error ClearCommError will report, and clear
    ok,               \* OnBnClickedOk: the update it is in, or "idle"
    call,             \* write(): the system call it is about to make
    boxes,            \* the values in the three boxes
    m_fHumid,         \* the dialog's idea of the humidity
    outq,             \* messages written and not yet sent by the driver
    has,              \* what a board that takes every message holds
    lost,             \* settings whose last message did not get through
    lastTemperature   \* the last temperature handed to write() before the
                      \* click that is served or was served last, or Never

settingsVars == <<opened, lineError, ok, call, boxes, m_fHumid, outq, has,
                  lost, lastTemperature>>

Never == -1

TypeOK ==
    /\ opened \in BOOLEAN /\ lineError \in BOOLEAN
    /\ ok \in SetKinds \cup {"idle"}
    /\ call \in {"none", "clear", "purge", "file"}
    /\ call # "none" => opened /\ ok # "idle"
    /\ \A s \in SetKinds : boxes[s] \in BoxValues[s] \cup {Defaults[s]}
    /\ m_fHumid \in HumidValues \cup TemperatureValues \cup {Defaults["humid"]}
    /\ outq \in Seq([cmd : SetKinds, value : Int])
    /\ has \in [SetKinds -> Int]
    /\ outq # <<>> => opened
    /\ Len(outq) <= MaxQueued
    /\ lost \subseteq SetKinds
    /\ lastTemperature \in TemperatureValues \cup {Never}

Init ==
    /\ opened = FALSE /\ lineError = FALSE
    /\ ok = "idle" /\ call = "none"
    /\ boxes = Defaults /\ m_fHumid = Defaults["humid"]
    /\ outq = <<>> /\ has = Defaults
    /\ lost = {} /\ lastTemperature = Never

-----------------------------------------------------------------------------
\* A float in 16 .. 256 and the two bytes made of it.

\* float keeps 24 bits: f is a multiple of 1/Scale, the one nearest to v/100.
Scale(v) == IF v < 3200 THEN 2 ^ 19
            ELSE IF v < 6400 THEN 2 ^ 18
            ELSE IF v < 12800 THEN 2 ^ 17
            ELSE 2 ^ 16

\* szBuf[2] = (int)f and szBuf[3] = (f - szBuf[2]) * 100, cut off: 23.30 is
\* a little less as a float, and goes out as 23 and 29.
Carried(v) ==
    LET f == (v * Scale(v) + 50) \div 100
    IN  100 * (f \div Scale(v)) + (100 * (f % Scale(v))) \div Scale(v)

\* The distance goes out as the four bytes of the float itself.
Message(s) == [cmd |-> s, value |-> IF s = "distance" THEN boxes[s]
                                    ELSE Carried(boxes[s])]

-----------------------------------------------------------------------------
\* The environment.

\* OnBnClickedButtonOpenPort runs between two clicks on OK, on the same
\* thread; closing the old port drops what it had not sent.
OpenOrClose ==
    /\ ok = "idle"
    /\ opened' \in BOOLEAN
    /\ lineError' = FALSE
    /\ lost' = lost \cup {outq[n].cmd : n \in DOMAIN outq}
    /\ outq' = <<>>
    /\ UNCHANGED <<ok, call, boxes, m_fHumid, has, lastTemperature>>

\* The line is disturbed.
ErrorLatched ==
    /\ opened
    /\ lineError' = TRUE
    /\ UNCHANGED <<opened, ok, call, boxes, m_fHumid, outq, has, lost,
                   lastTemperature>>

\* com_thread or read() asks first and takes the error away.
ErrorTaken ==
    /\ opened
    /\ lineError' = FALSE
    /\ UNCHANGED <<opened, ok, call, boxes, m_fHumid, outq, has, lost,
                   lastTemperature>>

\* The driver has sent the oldest message.
Transmit ==
    /\ outq # <<>>
    /\ has' = [has EXCEPT ![Head(outq).cmd] = Head(outq).value]
    /\ outq' = Tail(outq)
    /\ UNCHANGED <<opened, lineError, ok, call, boxes, m_fHumid, lost,
                   lastTemperature>>

-----------------------------------------------------------------------------
\* OnBnClickedOk.

After(s) == CASE s = "distance" -> "humid"
              [] s = "humid" -> "temperature"
              [] s = "temperature" -> "idle"

\* The user has filled in the boxes and confirms.
OnBnClickedOk ==
    /\ ok = "idle"
    /\ Len(outq) + 3 <= MaxQueued
    /\ \E d \in DistanceValues, h \in HumidValues, t \in TemperatureValues :
          boxes' = [distance |-> d, humid |-> h, temperature |-> t]
    /\ ok' = "distance"
    /\ lastTemperature' = IF boxes["temperature"] = Defaults["temperature"]
                          THEN lastTemperature ELSE boxes["temperature"]
    /\ UNCHANGED <<opened, lineError, call, m_fHumid, outq, has, lost>>

\* The handler hands the message to write(), which does nothing on a port
\* that is not open; nobody looks at what it returns.
StartWrite(s) ==
    /\ IF opened
       THEN call' = "clear" /\ UNCHANGED <<ok, lost>>
       ELSE ok' = After(s) /\ lost' = lost \cup {s} /\ UNCHANGED call
    /\ UNCHANGED <<opened, lineError, boxes, outq, has, lastTemperature>>

\* A setting the dialog takes for unchanged is not sent.
Skip(s) ==
    /\ ok' = After(s)
    /\ UNCHANGED <<opened, lineError, call, boxes, m_fHumid, outq, has, lost,
                   lastTemperature>>

UpdateDistance ==
    /\ ok = "distance" /\ call = "none"
    /\ StartWrite("distance")
    /\ UNCHANGED m_fHumid

\* Mutant: the humidity is compared with the wrong member.
UpdateHumid_Temperature ==
    /\ ok = "humid" /\ call = "none"
    /\ \/ /\ boxes["humid"] = Defaults["temperature"]
          /\ Skip("humid")
       \/ /\ boxes["humid"] # Defaults["temperature"]
          /\ m_fHumid' = boxes["humid"]
          /\ StartWrite("humid")

\* The value counts as set before write() is asked to send it.
UpdateHumid ==
    /\ ok = "humid" /\ call = "none"
    /\ \/ /\ boxes["humid"] = m_fHumid
          /\ Skip("humid")
       \/ /\ boxes["humid"] # m_fHumid
          /\ m_fHumid' = boxes["humid"]
          /\ StartWrite("humid")

\* Mutant: the port need not be open.
UpdateTemperature_Closed ==
    /\ ok = "temperature" /\ call = "none"
    /\ \/ /\ boxes["temperature"] = Defaults["temperature"]
          /\ Skip("temperature")
       \/ /\ boxes["temperature"] # Defaults["temperature"]
          /\ m_fHumid' = boxes["temperature"]
          /\ call' = "clear"
          /\ UNCHANGED <<opened, lineError, ok, boxes, outq, has, lost,
                         lastTemperature>>

\* Compared with m_fTemperature, which nothing ever changes, and stored as
\* the humidity.
UpdateTemperature ==
    /\ ok = "temperature" /\ call = "none"
    /\ \/ /\ boxes["temperature"] = Defaults["temperature"]
          /\ Skip("temperature")
       \/ /\ boxes["temperature"] # Defaults["temperature"]
          /\ m_fHumid' = boxes["temperature"]
          /\ StartWrite("temperature")

-----------------------------------------------------------------------------
\* write().

ClearCommError ==
    /\ call = "clear"
    /\ call' = IF lineError THEN "purge" ELSE "file"
    /\ lineError' = FALSE
    /\ UNCHANGED <<opened, ok, boxes, m_fHumid, outq, has, lost, lastTemperature>>

\* Mutant: after a purge nothing is written.
PurgeComm_Returns ==
    /\ call = "purge"
    /\ call' = "none" /\ ok' = After(ok)
    /\ lost' = lost \cup {outq[n].cmd : n \in DOMAIN outq}
    /\ outq' = <<>>
    /\ UNCHANGED <<opened, lineError, boxes, m_fHumid, has, lastTemperature>>

\* PURGE_TXABORT | PURGE_TXCLEAR: what the earlier updates wrote goes too.
PurgeComm ==
    /\ call = "purge"
    /\ call' = "file"
    /\ lost' = lost \cup {outq[n].cmd : n \in DOMAIN outq}
    /\ outq' = <<>>
    /\ UNCHANGED <<opened, lineError, ok, boxes, m_fHumid, has, lastTemperature>>

\* WriteFile takes the message, at once or as a pending operation, or fails;
\* either way the handler goes on to the next setting.
WriteFile ==
    /\ call = "file"
    /\ \/ outq' = Append(outq, Message(ok)) /\ lost' = lost \ {ok}
       \/ lost' = lost \cup {ok} /\ UNCHANGED outq
    /\ call' = "none"
    /\ ok' = After(ok)
    /\ UNCHANGED <<opened, lineError, boxes, m_fHumid, has, lastTemperature>>

-----------------------------------------------------------------------------
Environment == OpenOrClose \/ ErrorLatched \/ ErrorTaken \/ Transmit
Dialog == OnBnClickedOk \/ UpdateDistance \/ UpdateHumid \/ UpdateTemperature
Port == ClearCommError \/ PurgeComm \/ WriteFile

Next == Environment \/ Dialog \/ Port

Spec == Init /\ [][Next]_settingsVars

-----------------------------------------------------------------------------
\* Properties.

\* The board, which holds h, holds one of these values for s once the
\* messages of queue q have arrived.
Arrives(q, h, s, values) ==
    \/ /\ \A n \in DOMAIN q : q[n].cmd # s
       /\ h[s] \in values
    \/ \E n \in DOMAIN q :
          /\ q[n].cmd = s /\ q[n].value \in values
          /\ \A k \in DOMAIN q : k > n => q[k].cmd # s

\* What may come over the line for a value of a box.
UpToOne(v) == {v - 1, v}

\* After a click on OK a board that takes every message holds what the boxes
\* say, the distance exactly and the others up to a hundredth, except for a
\* message that was lost, which is not sent again; a temperature set back to
\* the default; and a humidity equal to the temperature set before, which
\* UpdateTemperature has stored in its place (SupervisorDlg.cpp:427-500).
ConfirmedIsHeld ==
    ok = "idle" =>
        /\ \/ "distance" \in lost
           \/ Arrives(outq, has, "distance", {boxes["distance"]})
        /\ \/ "humid" \in lost
           \/ boxes["humid"] = lastTemperature
           \/ Arrives(outq, has, "humid", UpToOne(boxes["humid"]))
        /\ \/ "temperature" \in lost
           \/ boxes["temperature"] = Defaults["temperature"]
           \/ Arrives(outq, has, "temperature", UpToOne(boxes["temperature"]))
=============================================================================
