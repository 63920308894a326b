--------------------------- MODULE MCLegacyServices ---------------------------
(* Two messages of one device, a valve and a fan, a client, and a channel of  *)
(* one place.                                                                 *)
EXTENDS LegacyServices, TLC

OneValve == <<"valve">>
OneFan   == <<"fan">>
===============================================================================
