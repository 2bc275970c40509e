------------------------------ MODULE MCService ------------------------------
(* Service with each of the three modes; service.cfg gives the requests.    *)
EXTENDS Service

MCModes == {"", "api", "timer"}

=============================================================================
