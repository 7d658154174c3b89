----------------------------- MODULE MCDevices -------------------------------
(***************************************************************************)
(* What has to come to an end, checked side by side: the serial port, the   *)
(* disk, sleeping threads, and the terminal program of utils/.              *)
(* They share no state.  part names the one whose behaviour it is, the      *)
(* others stay in one of their initial states; the fairness of a component  *)
(* is assumed where it is the one that moves.                               *)
(***************************************************************************)
EXTENDS Serial, MCDisk, Timer, Relay

VARIABLE part

Parts == {"serial", "disk", "timer", "relay"}
Rests(p) == part # p
MCInit ==
  /\ part \in Parts
  /\ Init /\ RelayInit
  /\ Rests("disk") => kind = Devices("atapi", "none") /\ table = Devices(<<>>, <<>>)
  /\ DiskInit
  /\ Rests("timer") => LoopsInTick = 9
  /\ TimerInit

\* The components other than p, and part, stay as they are.
Stay(p) ==
  /\ part = p /\ UNCHANGED part
  /\ p # "serial" => UNCHANGED vars
  /\ p # "disk" => UNCHANGED diskVars
  /\ p # "timer" => UNCHANGED timerVars
  /\ p # "relay" => UNCHANGED relayVars
MCNext ==
  \/ Stay("serial") /\ Next
  \/ Stay("disk") /\ DiskNext
  \/ Stay("timer") /\ TimerNext
  \/ Stay("relay") /\ RelayNext
allVars == <<part, vars, diskVars, timerVars, relayVars>>
MCFairness ==
  /\ WF_vars(part = "serial" /\ Transmit) /\ WF_vars(part = "serial" /\ serial_interrupt)
  /\ WF_vars(part = "serial" /\ EnableQueue)
  /\ \A t \in Threads : /\ WF_vars(part = "serial" /\ InQueue(t))
                        /\ WF_vars(part = "serial" /\ pc[t] = "panic" /\ serial_flush(t))
  /\ WF_diskVars(part = "disk" /\ DeviceStep) /\ WF_diskVars(part = "disk" /\ interrupt_handler)
  /\ \A t \in DT : SF_diskVars(part = "disk" /\ IdeStep(t))
  /\ WF_timerVars(part = "timer" /\ timer_interrupt)
  /\ \A t \in Sleepers : WF_timerVars(part = "timer" /\ (SleepTest(t) \/ SleepRun(t)))
  /\ WF_relayVars(part = "relay" /\ RelayStep)
MCSpec == MCInit /\ [][MCNext]_allVars /\ MCFairness
=============================================================================
