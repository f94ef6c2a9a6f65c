--------------------------- MODULE MCConfigPortal ---------------------------
(* Two passwords of one network, two brokers; tests that follow one another. *)
EXTENDS ConfigPortal

MCWifi == [ssid : {"home"}, key : {1, 2}]
=============================================================================
