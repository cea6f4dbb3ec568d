---------------------------- MODULE MCHttpCommand ----------------------------
(* HttpCommand for TLC, with every kind of command the client has. *)
EXTENDS HttpCommand, ClientCommands

CONSTANTS home, other

MCProfiles == {Profile(c) : c \in Commands}

\* With and without TLS and a usable bundle, for an http:// and an https:// home.
MCBuilds == {[noTls |-> {}, badCerts |-> {}], [noTls |-> {other}, badCerts |-> {}],
             [noTls |-> {home}, badCerts |-> {}], [noTls |-> {}, badCerts |-> {other}]}
=============================================================================
