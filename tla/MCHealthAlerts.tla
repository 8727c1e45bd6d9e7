---------------------------- MODULE MCHealthAlerts ----------------------------
EXTENDS HealthAlerts
CONSTANTS ding, telegram

MCConfigured == <<ding, telegram>>
MCEnablings == SUBSET {ding, telegram}
=============================================================================
