---------------------------- MODULE MCDeviceEvents ----------------------------
(* DeviceEvents with three devices and two batches in flight: enough for  *)
(* the second batch's compare to overtake the first batch's open, for a   *)
(* wait to see an event recorded once or twice, and for await_streams to  *)
(* find a middle device still busy.                                        *)
EXTENDS DeviceEvents
====
