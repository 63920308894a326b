---------------------------- MODULE MCMqttCommands ----------------------------
(* One command with the configured three retries, which the device may carry  *)
(* out twice, for TLC; the proofs are about any number of commands.           *)
EXTENDS MqttCommands, TLC

CONSTANT c1
===============================================================================
