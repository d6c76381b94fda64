----------------------------- MODULE MCConfigReload -----------------------------
EXTENDS ConfigReload

CONSTANTS a, b, c

MCDevices == {a, b, c}
MCConfigs == {{a, b}, {b, c}, {a, c}}
MCInitial == {a, b}

=============================================================================
