------------------------ MODULE MCSettingsTransaction ------------------------
EXTENDS SettingsTransaction, TLC

CONSTANTS vault, preferences, control

MCTargets == {vault, preferences, control}
MCAlways == {vault, preferences}
=============================================================================
