----------------------------- MODULE MCServing ------------------------------
(* Instances of Serving for TLC: clients that speak the protocol.            *)
EXTENDS Serving

MCDialogues ==
  { << <<"handshake", "status">>, <<"status">>, <<"ping", 5>> >>,
    << <<"other">>, <<"handshake", "status">>, <<"ping", -1>>, <<"other">>, <<"status">> >>,
    << <<"handshake", "login">>, <<"login", <<1, 2, 0>> >>, <<"other">> >>,
    << <<"handshake", "login">>, <<"other">>, <<"login", << >> >>, <<"ping", 1>> >>,
    << <<"handshake", "other">>, <<"handshake", "login">> >> }

\* What they send.
DialogueStreams == {StreamOf(d) : d \in MCDialogues}

ASSUME ClientsStay == Stays
=============================================================================
