\* A batch that was removed comes back before getNext passed its old TaskQueue.
CONSTANTS
  b1 = b1  b2 = b2  t1 = t1  t2 = t2  t3 = t3
  Batches = {b1, b2}
  Tasks = {t1, t2, t3}
  Submissions <- MCSubmissions
  Queues = {q1, q2, q3}
  Dispatchers = {d1, d2}
SYMMETRY Interchangeable
SPECIFICATION Spec
PROPERTY RemovedQueuesArePopped
