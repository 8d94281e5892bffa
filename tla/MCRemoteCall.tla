---------------------------- MODULE MCRemoteCall ----------------------------
(* Model values for RemoteCall: one page address or ENOMEM from mmap, 0   *)
(* or EACCES from mprotect.                                               *)
EXTENDS RemoteCall

MCMmapResults == {4096, -12}
MCMprotectResults == {0, -13}
=============================================================================
