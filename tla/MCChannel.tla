----------------------------- MODULE MCChannel ------------------------------
(* Instances of the channel transport for TLC.                             *)
EXTENDS ChannelProps

\* Enough ports for every channel and every adoption, so that the bound on
\* Ports never stops a delivery.
ASSUME EnoughPorts ==
  Cardinality(Ports) >= Cardinality(Mailboxes)
                        + MaxTransfer * (MaxCalls - Cardinality(Mailboxes) \div 2)

=============================================================================
