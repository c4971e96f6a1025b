-------------------------- MODULE MCDeviceSettings --------------------------
EXTENDS DeviceSettings

CONSTANTS Big, Small

ProfileCores   == [p \in Profile |-> IF p = Big THEN 4 ELSE 2]
ProfileVersion == [p \in Profile |-> IF p = Big THEN 13 ELSE 12]
AllExchanges   == Exchange
=============================================================================
