------------------------- MODULE MCAcceptanceCampaign -------------------------
\* A small instance of AcceptanceCampaign.
EXTENDS AcceptanceCampaign

MCAnswers == {"accepted", "declined", "transient", "correction", "unknown",
              "rejected", "invalid"}
MCDecisive == {"accepted", "transient"}
=============================================================================
