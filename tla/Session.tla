------------------------------ MODULE Session ------------------------------
(***************************************************************************)
(* The life of the client towards one peer: start-up, and once the         *)
(* tracker has named peers, what is read from the first that is reached.   *)
(***************************************************************************)
EXTENDS Startup, Connection

sessionVars == <<startupVars, connVars>>

SessionInit == StartupInit /\ ConnInit

\* connect_torrent_peers reaches a peer.  File and answer are not looked at again.
Connects ==
    /\ stage = "connecting" /\ peers # <<>>
    /\ stage' = "connected"
    /\ source' = NoTorrent /\ torrent' = NoTorrent /\ reply' = NoPeers /\ peers' = <<>>
    /\ UNCHANGED connVars

SessionNext ==
    \/ StartupNext /\ UNCHANGED connVars
    \/ Connects
    \/ stage = "connected" /\ ConnNext /\ UNCHANGED startupVars

\* read_msg goes on, and what has arrived is delivered: select! drops read_msg only
\* to write, which ends, and polls its branches in random order.
SessionSpec ==
    /\ SessionInit /\ [][SessionNext]_sessionVars
    /\ WF_sessionVars(stage = "connected" /\ Attempt /\ UNCHANGED startupVars)
    /\ SF_sessionVars(stage = "connected" /\ ReadBytes /\ UNCHANGED startupVars)
=============================================================================
