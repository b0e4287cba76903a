SPECIFICATION DriversSpec
CONSTANTS
    Chips = {"ism330dhcx", "lsm6dso", "icm42688p", "mpu9250", "mpu6500", "icm20948",
             "mmc5983ma", "rm3100", "ak8963", "ak09916", "lis3mdl", "lis2mdl"}
    Requests <- Asked
    Conversions = 3
    BusFaults = 2
    Deaths = 1
INVARIANTS
    ReadingsTrue
    StartWorks
PROPERTIES
    LeavesNoTrace
CHECK_DEADLOCK FALSE
