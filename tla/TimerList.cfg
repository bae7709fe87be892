SPECIFICATION TimerSpec
CONSTANTS
  Timer = {t1, t2, t3, t4}
  MaxExpires = 4
PROPERTIES
  ImplementsTimers
