---- MODULE MCLifecycle ----
EXTENDS Lifecycle, TLC

CONSTANTS serial, read   \* the controllers that runServe builds

MCControllers == {serial, read}
====
