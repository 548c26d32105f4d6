SPECIFICATION Spec
CONSTANTS
    Tabs = {t1, t2}
    Hostnames = {h1}
    SshKeys = {k1}
    Profiles = {p1}
    ChannelProfiles = {p1}
    Channels = {c1}
    DisabledByRam = {}
    CloudProviders = {cloud}
    LocalModels = {local}
    EgressModes = {"whitelist"}
    TunnelChoices = {"skip", "named"}
    BackupKinds = {"managed", "b2"}
    Bases = {home, own}
    DefaultBase = home
    MaxRequests = 3
    MaxFaults = 1
    MaxRestarts = 1
    None = None
SYMMETRY TabSymmetry
INVARIANTS LossHasACause DoneMeansApplied OneRegistration RecoveryKeyFirst
CHECK_DEADLOCK FALSE
