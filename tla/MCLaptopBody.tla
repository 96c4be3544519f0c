---------------------------- MODULE MCLaptopBody ----------------------------
(* LaptopBody with the commands its runs use.                              *)
EXTENDS LaptopBody

Cmd(where, what) ==
  [capability |-> where, action |-> what, wellformed |-> TRUE, expects_result |-> TRUE]

\* A say to supersede a say, one of which nobody wants to hear about, and a
\* stop.
Talk ==
  [say |-> Cmd("spk0", "say"),
   aside |-> [Cmd("spk0", "say") EXCEPT !.expects_result = FALSE],
   hush |-> Cmd("spk0", "stop")]

TalkSpan == DOMAIN Talk

\* A capture to start twice and to stop, a picture, a latch to clear.
Errands ==
  [record1 |-> Cmd("mic0", "start_capture"),
   record2 |-> Cmd("mic0", "start_capture"),
   unrecord |-> Cmd("mic0", "stop_capture"),
   picture |-> Cmd("cam0", "snapshot"),
   clear |-> Cmd("sys", "clear_safe_hold")]

ErrandSpan == DOMAIN Errands

=============================================================================
