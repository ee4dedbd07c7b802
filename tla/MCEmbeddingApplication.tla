----------------------- MODULE MCEmbeddingApplication -----------------------
(***************************************************************************)
(* The instances of MCDeviceSimulatorServer in an embedding application.   *)
(***************************************************************************)
EXTENDS MCDeviceSimulatorServer, EmbeddingApplication
=============================================================================
