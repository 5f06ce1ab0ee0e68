-------------------------- MODULE MCCampaignEngine --------------------------
EXTENDS CampaignEngine

CONSTANTS h1, h2, h3, none

Alert(cat, sev, s, d) == [category |-> cat, severity |-> sev, src |-> s, dst |-> d]

\* A scan that proves little, a C2 channel and a transfer that prove much,
\* between three hosts and with an alert that has no destination.
MCAlerts == {Alert("PORT_SCAN", "MEDIUM", h1, h2), Alert("PORT_SCAN", "CRITICAL", h2, h3),
             Alert("C2_BEACONING", "HIGH", h1, none),
             Alert("EXFILTRATION", "CRITICAL", h2, none),
             Alert("LATERAL_MOVEMENT", "CRITICAL", h3, h1)}
MCAssets == {h1, h2, h3}
=============================================================================
