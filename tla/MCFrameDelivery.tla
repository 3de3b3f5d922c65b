--------------------------- MODULE MCFrameDelivery ---------------------------
EXTENDS FrameDelivery

LEDs == {0, 1}
OneLED == {0}
==============================================================================
