--------------------------- MODULE MCImageBouncer ---------------------------
(* The bouncer: two download threads, and tuples that name one image       *)
(* twice.  Apart from it, the resizing of four images, one of which is in  *)
(* the destination bucket: lists that fill batches of two, or none, so     *)
(* that the last batch is all there is, a rest, or empty; two workers that *)
(* take chunks of two.                                                     *)
EXTENDS ImageBouncer, ImageDownloadQueue, TLC

MCTupleLists == {<<"a", "b", "a", "c">>, <<"b">>, <<>>}
MCSourceLists == {<<"a", "b", "c", "d">>, <<"a", "b">>, <<"c">>}

NoBouncer ==
  /\ tuples = <<>> /\ s3 = {} /\ keySet = {} /\ nameSet = {} /\ downloadQ = <<>> /\ uploadQ = <<>>
  /\ image = [d \in Downloader |-> None] /\ uploading = None /\ disk = {}
  /\ pc = [d \in Downloader |-> "done"] /\ uploadPc = "done" /\ statusPc = "done" /\ mainPc = "exit"
  /\ downloadComplete = TRUE /\ uploadComplete = TRUE /\ failed = {} /\ late = {}
  /\ counts = [c \in Counter |-> 0] /\ mutex = [c \in Counter |-> None] /\ read = [d \in Downloader |-> 0]
NoResize ==
  /\ sourceFiles = <<>> /\ units = <<>> /\ counter = 0 /\ producer = "none" /\ wanted = {}
  /\ accepted = NoneOf /\ resent = 0 /\ images = <<>> /\ faults = 0 /\ resized = NoneOf
  /\ transport = [p \in ResizeWorker \cup {Producer} |-> "closed"]
  /\ worker = [w \in ResizeWorker |-> "none"] /\ workUnits = [w \in ResizeWorker |-> <<>>]
  /\ gracefullyQuit = [w \in ResizeWorker |-> FALSE]
  /\ dropped = [cause \in {"reply", "kill", "stop"} |-> NoneOf]

InitPrograms == (Init /\ NoResize) \/ (NoBouncer /\ InitResize)
NextPrograms ==
  IF producer = "none" THEN Next /\ UNCHANGED resizeVars ELSE NextResize /\ UNCHANGED vars
SpecPrograms == InitPrograms /\ [][NextPrograms]_<<vars, resizeVars>> /\ Fairness
=============================================================================
