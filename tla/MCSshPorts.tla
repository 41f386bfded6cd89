------------------------------ MODULE MCSshPorts ------------------------------
(* Two goroutines, each serving any number of calls, over two ports, where *)
(* sshd_config itself has no Port line. Goroutines are interchangeable.    *)
EXTENDS SshPorts, TLC
NoPortLines == <<>>
Interchangeable == Permutations(Calls)
=============================================================================
