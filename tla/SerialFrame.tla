----------------------------- MODULE SerialFrame -----------------------------
(***************************************************************************)
(* How packets cross a serial line: the sending task writes each as a      *)
(* frame (CSerialSendTask::svc, SerialDataSend.cpp), the receiving task    *)
(* takes frames apart byte by byte (CSerialRecvTask::svc,                  *)
(* SerialDataRecv.cpp).  The two ends share nothing but the line, which    *)
(* keeps the order of bytes and loses none: what goes wrong here is a call *)
(* of write that takes only a part, or fails.                              *)
(***************************************************************************)
EXTENDS FrameState

sendVars == <<frame, left, written>>
recvVars == <<recv, buf, delivered>>
vars == <<sendVars, line, recvVars, sent, failed, strayed>>
-----------------------------------------------------------------------------
Init == /\ frame = <<>> /\ left = 0 /\ written = 0
        /\ line = <<>>
        /\ recv = "IDLE" /\ buf = <<>> /\ delivered = <<>>
        /\ sent = <<>> /\ failed = {} /\ strayed = {}
-----------------------------------------------------------------------------
(* The sender *)

StartFrame == /\ left = 0 /\ Len(sent) < MaxPackets
              /\ \E p \in Packets : sent' = Append(sent, p) /\ frame' = Frame(p)
              /\ left' = Len(frame') /\ written' = 0
              /\ UNCHANGED <<line, recvVars, failed, strayed>>

(* write takes the first k bytes of what it is given: the buffer from iSentDataLen
   on, which is what the call before took and not where it stopped. *)
Write == /\ left > 0
         /\ \E k \in 0 .. left :
              /\ line' = line \o SubSeq(frame, written + 1, written + k)
              /\ left' = left - k /\ written' = k
              /\ strayed' = IF k > 0 /\ written # Len(frame) - left
                            THEN strayed \cup {Len(sent)} ELSE strayed
         /\ UNCHANGED <<frame, recvVars, sent, failed>>

(* The rest of the frame is given up. *)
WriteFails == /\ left > 0
              /\ left' = 0 /\ written' = -1
              /\ failed' = failed \cup {Len(sent)}
              /\ UNCHANGED <<frame, line, recvVars, sent, strayed>>
-----------------------------------------------------------------------------
(* The receiver: one byte *)

RecvIdle_KeepsLength(b) ==
  /\ recv = "IDLE"
  /\ recv' = IF b = Flag THEN "DATA" ELSE recv
  /\ UNCHANGED <<buf, delivered>>

RecvIdle(b) ==
  /\ recv = "IDLE"
  /\ IF b = Flag THEN recv' = "DATA" /\ buf' = <<>> ELSE UNCHANGED <<recv, buf>>
  /\ UNCHANGED delivered

(* The packet in a complete frame and its checksum. *)
Body == SubSeq(buf, 1, Len(buf) - 2)
Intact == Len(buf) > 2 /\ Fcs(Body) = SubSeq(buf, Len(buf) - 1, Len(buf))

RecvData(b) ==
  /\ recv = "DATA"
  /\ \/ b = Esc /\ recv' = "7D" /\ UNCHANGED <<buf, delivered>>
     \/ /\ b = Flag
        /\ recv' = "IDLE"
        /\ delivered' = IF Intact THEN Append(delivered, Body) ELSE delivered
        /\ UNCHANGED buf
     \/ b \notin {Esc, Flag} /\ buf' = Append(buf, b) /\ UNCHANGED <<recv, delivered>>

RecvEscaped(b) ==
  /\ recv = "7D"
  /\ IF b \in {Esc, Flag} THEN recv' = "IDLE" /\ UNCHANGED buf
                          ELSE recv' = "DATA" /\ buf' = Append(buf, Xor7D(b))
  /\ UNCHANGED delivered

Recv == /\ line # <<>>
        /\ RecvIdle(Head(line)) \/ RecvData(Head(line)) \/ RecvEscaped(Head(line))
        /\ line' = Tail(line)
        /\ UNCHANGED <<sendVars, sent, failed, strayed>>
-----------------------------------------------------------------------------
Next == StartFrame \/ Write \/ WriteFails \/ Recv
Spec == Init /\ [][Next]_vars
=============================================================================
