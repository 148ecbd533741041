--------------------------- MODULE MCCampaignLedger ---------------------------
EXTENDS CampaignLedger

Campaigns == {[ceiling |-> 5, width |-> 1, policy |-> "tolerate"],
              [ceiling |-> 6, width |-> 2, policy |-> "refuse"]}
TwoWide == {[ceiling |-> 6, width |-> 2, policy |-> "refuse"]}
=============================================================================
