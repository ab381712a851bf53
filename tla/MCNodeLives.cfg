CONSTANTS
    Versions = {"v1", "deaf", "mute"}
    Factory = "v1"
    JoinsWifi = {"v1", "mute"}
    ReachesWs = {"v1"}
    Ssids = {"home", "spaced", "wrong"}
    WDG_MIN = 1
    LORA_FALLBACK_AFTER_MIN = 3
    WIFI_DOWN_REBOOT_MIN = 4
    BLE_BACK_MIN = 5
    OTA_CONFIRM_TIMEOUT_MIN = 5
    Commands = {"factory_reset", "auth", "register", "trust_round", "trust_resume", "wallet_backup", "wifi_set"}
    TRUST_MAX_ROUNDS = 1
    MaxUpsets = 3
    MaxMinutes = 5
SPECIFICATION MCSpec
INVARIANTS LivesConsistent AProvenImage
PROPERTIES IdentityKept ComesBack SettlesDown
CHECK_DEADLOCK FALSE
