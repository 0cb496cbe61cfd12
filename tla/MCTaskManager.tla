--------------------------- MODULE MCTaskManager ---------------------------
(* Instances of TaskManager for TLC: which tasks are of which kind and which *)
(* disturbances an instance considers.                                       *)
EXTENDS TaskManager

NoTasks == {}
First == {1}
Second == {2}
Third == {3}

CrashAndCancel == {"crash", "cancel"}
Stops == {"crash", "cancel", "close"}
WriterEvents == {"pause", "product", "native", "collect", "policy", "crash", "cancel"}
Disturbances == Stops \cup WriterEvents
CancelOnly == {"cancel"}
=============================================================================
