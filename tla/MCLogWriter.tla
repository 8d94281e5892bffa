---------------------------- MODULE MCLogWriter ----------------------------
(* Two threads, every cap on, a 48-byte msg[] (512 in the code) and a     *)
(* 4-byte identification: the header is 28 bytes, 30 with a wrapped       *)
(* timestamp.                                                             *)
EXTENDS LogWriter

MCCaps == {"LEVEL", "TIMESTAMP", "IDENT"}
MCFiles == {"stdout", "none"}
(* Dumps with a clamped negative indent (width 16): one full row, and a  *)
(* full and a partial row; indent 7 (width 15): nothing, and a full and a *)
(* partial row; indent 66 (width 1): a row per byte.                      *)
MCDumps == {[req |-> 1, prefix |-> 3, ind |-> i, len |-> l] :
              <<i, l>> \in {<<-1, 16>>, <<-1, 17>>, <<7, 0>>, <<7, 17>>, <<66, 3>>}}
=============================================================================
