--------------------------- MODULE MCAlertPipeline ---------------------------
EXTENDS AlertPipeline

CONSTANTS h1, h2, none

Found(cat, sev, s, d, ofFlow) == [category |-> cat, severity |-> sev, src |-> s,
                                  dst |-> d, sure |-> TRUE, ofFlow |-> ofFlow]

\* One host scans, reaches a C2 server of the Bloom filter and sends data out in
\* a flow that a Sigma rule finds as well, and another host scans it: the second
\* and third of the first host prove a case with two alerts.
MCFlowAlerts == {<<Found("PORT_SCAN", "MEDIUM", h2, h1, FALSE)>>,
                 <<Found("MALICIOUS_C2", "CRITICAL", h1, none, TRUE)>>,
                 <<Found("EXFILTRATION", "CRITICAL", h1, none, FALSE),
                   Found("ANOMALY_ML", "LOW", h1, h2, TRUE)>>}
\* A clock far behind, one that agrees at first and one that is ahead.
MCStamps == {-3, 0, 2}
MCAssets == {h1, h2}
HighOnly == {[level |-> "HIGH", enabled |-> TRUE]}
=============================================================================
