------------------------------- MODULE MCUsbBus -------------------------------
(* UsbBus for TLC: nodes of two bridges, and SPI as three kinds of part have it. *)
EXTENDS UsbBus

Named2 == {[match |-> "a", cs |-> 0, hz |-> 400], [match |-> "a", cs |-> 1, hz |-> 400],
           [match |-> "a", cs |-> I2C, hz |-> 400], [match |-> "a", cs |-> I2C, hz |-> 100],
           [match |-> "b", cs |-> I2C, hz |-> 400]}
Parts == {[mode |-> 0, hz |-> 10], [mode |-> 0, hz |-> 4], [mode |-> 3, hz |-> 10]}
=============================================================================
