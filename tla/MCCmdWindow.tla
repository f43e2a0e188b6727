---------------------------- MODULE MCCmdWindow ----------------------------
(* Instances of CmdWindow for TLC.                                         *)
EXTENDS CmdWindow

(* PoolSoftLimit and PoolHardLimit of the default configuration, divided   *)
(* by COMMON_REAL_SIZE + sizeof(CommonBuf) as getLimitter() does.          *)
BufferSize == 32 * 4096 + 512 + 32
DefaultX1 == 134217728 \div BufferSize
DefaultX2 == 268435456 \div BufferSize
=============================================================================
