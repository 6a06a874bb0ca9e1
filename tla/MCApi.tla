-------------------------------- MODULE MCApi --------------------------------
(* The API's life with an event stream open or not. *)
EXTENDS ApiServer

==============================================================================
